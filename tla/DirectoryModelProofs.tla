------------------------- MODULE DirectoryModelProofs -------------------------
(* For every definition and every way to fold strings: what is parsed is      *)
(* rendered entry by entry, no two entries clash, the files keep the entries, *)
(* and the two sides of each membership are the same pairs.                   *)
EXTENDS DirectoryModel, FiniteSetTheorems, SequenceTheorems, TLAPS

(***************************************************************************)
(* Names and entries.                                                      *)
(***************************************************************************)

LEMMA FoldTypes ==
  ASSUME NEW s \in Strings
  PROVE  Fold[s] \in Strings /\ Fold[Fold[s]] = Fold[s]
BY DirectoryAssumption

\* The DN of a leaf.
LEMMA LeafDN ==
  ASSUME NEW name \in Strings, NEW container \in Containers
  PROVE  /\ <<name, container>> \in DNs /\ Len(<<name, container>>) = 2
         /\ dn_key(<<name, container>>) = <<Fold[name], container>>
         /\ Tail(dn_key(<<name, container>>)) = <<container>>
<1>1. <<name, container>> \in [1..2 -> NameSet]
  BY DEF NameSet
<1>2. <<name, container>> \in DNs
  BY <1>1 DEF DNs
<1>3. QED
  BY <1>2, FoldTypes DEF dn_key

\* The DNs of the base and of a container.
LEMMA InnerDN ==
  ASSUME NEW name \in Containers
  PROVE  /\ <<name>> \in DNs /\ Len(<<name>>) = 1 /\ dn_key(<<name>>) = <<name>>
         /\ Base \in DNs /\ Len(Base) = 0 /\ dn_key(Base) = Base
         /\ Tail(dn_key(<<name>>)) = Base
<1>1. <<name>> \in [1..1 -> NameSet]
  BY DEF NameSet
<1>2. << >> \in [1..0 -> NameSet]
  OBVIOUS
<1>3. <<name>> \in DNs /\ << >> \in DNs
  BY <1>1, <1>2 DEF DNs
<1>4. QED
  BY <1>3 DEF dn_key, Base

\* What a step of a loop appends to a list of distinct elements.
LEMMA Appended ==
  ASSUME NEW S, NEW list \in Seq(S), NEW item \in S
  PROVE  /\ Append(list, item) \in Seq(S) /\ Len(Append(list, item)) = Len(list) + 1
         /\ DOMAIN list = 1..Len(list) /\ Len(list) \in Nat
         /\ DOMAIN Append(list, item) = 1..Len(list) + 1
         /\ \A i \in DOMAIN list : Append(list, item)[i] = list[i]
         /\ Append(list, item)[Len(list) + 1] = item
         /\ ToSet(Append(list, item)) = ToSet(list) \cup {item}
<1>1. /\ Append(list, item) \in Seq(S) /\ Len(Append(list, item)) = Len(list) + 1
      /\ \A i \in 1..Len(list) : Append(list, item)[i] = list[i]
      /\ Append(list, item)[Len(list) + 1] = item
      /\ DOMAIN list = 1..Len(list) /\ Len(list) \in Nat
  BY AppendProperties, LenProperties
<1>2. DOMAIN Append(list, item) = 1..Len(list) + 1
  BY <1>1, LenProperties
<1>3. ToSet(Append(list, item)) = ToSet(list) \cup {item}
  BY <1>1, <1>2 DEF ToSet
<1>4. QED
  BY <1>1, <1>2, <1>3

\* An entry that does not clash with the list, and is no deeper than its last,
\* can be added.
LEMMA AddEntry ==
  ASSUME NEW list \in Seq(Entries), NEW entry \in Entries, Unique(list), ParentsFirst(list),
         \A other \in ToSet(list) : /\ dn_key(other.dn) # dn_key(entry.dn)
                                    /\ other.uuid # entry.uuid
                                    /\ Len(other.dn) <= Len(entry.dn)
  PROVE  Unique(Append(list, entry)) /\ ParentsFirst(Append(list, entry))
<1>. DEFINE longer == Append(list, entry)
<1>1. /\ DOMAIN list = 1..Len(list) /\ Len(list) \in Nat /\ DOMAIN longer = 1..Len(list) + 1
      /\ \A i \in DOMAIN list : longer[i] = list[i] /\ list[i] \in ToSet(list)
      /\ longer[Len(list) + 1] = entry
  BY Appended DEF ToSet
<1>2. Len(entry.dn) <= Len(entry.dn)
  <2>1. \A dn \in DNs : Len(dn) \in Nat
    BY DEF DNs
  <2>2. QED
    BY <2>1 DEF Entries
<1>. HIDE DEF longer
<1>3. \A i \in DOMAIN longer : i \in DOMAIN list \/ i = Len(list) + 1
  BY <1>1
<1>4. Unique(longer)
  BY <1>1, <1>3 DEF Unique
<1>5. ParentsFirst(longer)
  <2>. SUFFICES ASSUME NEW i \in DOMAIN longer, NEW j \in DOMAIN longer, i <= j
                PROVE  Len(longer[i].dn) <= Len(longer[j].dn)
    BY DEF ParentsFirst
  <2>1. CASE j \in DOMAIN list
    BY <1>1, <2>1 DEF ParentsFirst
  <2>2. CASE j = Len(list) + 1
    BY <1>1, <1>2, <1>3, <2>2
  <2>3. QED
    BY <1>3, <2>1, <2>2
<1>6. QED
  BY <1>4, <1>5 DEF longer

\* Entries that are rendered parents first stay where they are.
LEMMA SortKeeps ==
  ASSUME NEW list \in Seq(Entries), ParentsFirst(list)
  PROVE  ByDepth(list) = list
<1>1. DOMAIN list = 1..Len(list) /\ Len(list) \in Nat
  BY LenProperties
<1>2. \A i \in DOMAIN list : list[i] \in Entries
  BY ElementOfSeq, <1>1
<1>3. \A dn \in DNs : Len(dn) \in Nat
  BY DEF DNs
<1>4. ASSUME NEW i \in DOMAIN list
      PROVE  NoLater(list, i) = 1..i
  <2>1. ASSUME NEW j \in DOMAIN list
        PROVE  j <= i <=> Len(list[j].dn) < Len(list[i].dn) + (IF j <= i THEN 1 ELSE 0)
    <3>1. list[i].dn \in DNs /\ list[j].dn \in DNs
      BY <1>2 DEF Entries
    <3>2. Len(list[i].dn) \in Nat /\ Len(list[j].dn) \in Nat
      BY <1>3, <3>1
    <3>3. j <= i => Len(list[j].dn) <= Len(list[i].dn)
      BY DEF ParentsFirst
    <3>4. i <= j => Len(list[i].dn) <= Len(list[j].dn)
      BY DEF ParentsFirst
    <3>5. CASE j <= i
      BY <3>2, <3>3, <3>5
    <3>6. CASE ~(j <= i)
      <4>1. i <= j
        BY <1>1, <3>6
      <4>2. QED
        BY <3>2, <3>4, <3>6, <4>1
    <3>7. QED
      BY <3>5, <3>6
  <2>2. NoLater(list, i) = {j \in DOMAIN list : j <= i}
    BY <2>1 DEF NoLater
  <2>3. QED
    BY <1>1, <2>2
<1>5. \A i \in DOMAIN list : Cardinality(NoLater(list, i)) = i
  <2>. SUFFICES ASSUME NEW i \in DOMAIN list PROVE Cardinality(NoLater(list, i)) = i
    OBVIOUS
  <2>1. i \in Nat /\ i >= 1
    BY <1>1
  <2>2. Cardinality(1..i) = i
    BY <2>1, FS_Interval
  <2>3. QED
    BY <2>2, <1>4
<1>6. \A place \in DOMAIN list : (CHOOSE i \in DOMAIN list : Cardinality(NoLater(list, i)) = place) = place
  BY <1>5
<1>7. \A place \in DOMAIN list : ByDepth(list)[place] = list[place]
  BY <1>6, Zenon DEF ByDepth
<1>8. ByDepth(list) = [place \in DOMAIN list |-> list[place]]
  BY <1>7, Zenon DEF ByDepth
<1>9. list = [place \in DOMAIN list |-> list[place]]
  BY <1>1, LenProperties
<1>10. QED
  BY <1>8, <1>9

(***************************************************************************)
(* The definition.                                                         *)
(***************************************************************************)

\* The items of the lists and their fields.
LEMMA Items ==
  ASSUME TypeOK
  PROVE  /\ \A i \in DOMAIN users : /\ users[i] \in UserItems /\ users[i] \in ToSet(users)
                                    /\ users[i].entry_uuid \in Uuids /\ users[i].username \in Strings
         /\ \A i \in DOMAIN groups : /\ groups[i] \in Groups /\ groups[i] \in ToSet(groups)
                                     /\ groups[i].entry_uuid \in Uuids /\ groups[i].groupname \in Strings
         /\ \A i \in DOMAIN bind_accounts :
              /\ bind_accounts[i] \in BindItems /\ bind_accounts[i] \in ToSet(bind_accounts)
              /\ bind_accounts[i].entry_uuid \in Uuids /\ bind_accounts[i].username \in Strings
         /\ DOMAIN users = 1..Len(users) /\ Len(users) \in Nat
         /\ DOMAIN groups = 1..Len(groups) /\ Len(groups) \in Nat
         /\ DOMAIN bind_accounts = 1..Len(bind_accounts) /\ Len(bind_accounts) \in Nat
<1>1. /\ users \in Seq(UserItems) /\ groups \in Seq(Groups) /\ bind_accounts \in Seq(BindItems)
  BY DEF TypeOK
<1>2. /\ DOMAIN users = 1..Len(users) /\ Len(users) \in Nat
      /\ DOMAIN groups = 1..Len(groups) /\ Len(groups) \in Nat
      /\ DOMAIN bind_accounts = 1..Len(bind_accounts) /\ Len(bind_accounts) \in Nat
  BY <1>1, LenProperties
<1>3. \A i \in DOMAIN users : users[i] \in UserItems /\ users[i] \in ToSet(users)
  BY <1>1, <1>2, ElementOfSeq DEF ToSet
<1>4. \A i \in DOMAIN groups : groups[i] \in Groups /\ groups[i] \in ToSet(groups)
  BY <1>1, <1>2, ElementOfSeq DEF ToSet
<1>5. \A i \in DOMAIN bind_accounts :
        bind_accounts[i] \in BindItems /\ bind_accounts[i] \in ToSet(bind_accounts)
  BY <1>1, <1>2, ElementOfSeq DEF ToSet
<1>6. \A u \in UserItems : u.entry_uuid \in Uuids /\ u.username \in Strings
  BY DirectoryAssumption
<1>7. \A b \in BindItems : b.entry_uuid \in Uuids /\ b.username \in Strings
  BY DirectoryAssumption
<1>8. \A g \in Groups : g.entry_uuid \in Uuids /\ g.groupname \in Strings
  BY DEF Groups
<1>9. QED
  BY <1>2, <1>3, <1>4, <1>5, <1>6, <1>7, <1>8

LEMMA CandidatesTyped ==
  ASSUME TypeOK, NEW reference
  PROVE  candidates(reference) \in SUBSET UuidsOf(users) /\ UuidsOf(users) \subseteq Uuids
<1>1. ToSet(users) \subseteq UserItems
  BY Items DEF ToSet
<1>2. \A u \in UserItems : u.entry_uuid \in Uuids
  BY DirectoryAssumption
<1>3. QED
  BY <1>1, <1>2 DEF candidates, UuidsOf

LEMMA CandidatesFinite ==
  ASSUME TypeOK, NEW reference
  PROVE  IsFiniteSet(candidates(reference))
<1>. DEFINE uuid == [i \in DOMAIN users |-> users[i].entry_uuid]
<1>1. IsFiniteSet(DOMAIN users)
  BY Items, FS_Interval
<1>2. UuidsOf(users) = {users[i].entry_uuid : i \in DOMAIN users}
  BY DEF UuidsOf, ToSet
<1>3. uuid \in Surjection(DOMAIN users, UuidsOf(users))
  BY <1>2 DEF Surjection
<1>4. IsFiniteSet(UuidsOf(users))
  BY <1>1, <1>3, FS_Surjection
<1>5. QED
  BY <1>4, CandidatesTyped, FS_Subset

\* What resolve_members returns are the users that the references name.
LEMMA ResolvedMembers ==
  ASSUME TypeOK, NEW item \in GroupItems, Resolvable(item.members)
  PROVE  /\ Resolved(item) \in Groups
         /\ ToSet(Resolved(item).members) =
              UNION {candidates(reference) : reference \in Resolved(item).references}
         /\ Resolved(item).entry_uuid = item.entry_uuid
         /\ Resolved(item).groupname = item.groupname
<1>. DEFINE references == item.members
            members == resolve_members(references)
<1>1. /\ item.entry_uuid \in Uuids /\ item.groupname \in Strings /\ references \in Seq(Strings)
  BY DirectoryAssumption
<1>. HIDE DEF references
<1>2. /\ DOMAIN references = 1..Len(references) /\ Len(references) \in Nat
      /\ \A i \in DOMAIN references : references[i] \in Strings
  BY <1>1, LenProperties, ElementOfSeq
<1>3. \A i \in DOMAIN references : candidates(references[i]) = {members[i]}
  <2>. SUFFICES ASSUME NEW i \in DOMAIN references
                PROVE  candidates(references[i]) = {members[i]}
    OBVIOUS
  <2>1. Cardinality(candidates(references[i])) = 1
    BY DEF Resolvable, references
  <2>2. PICK uuid : candidates(references[i]) = {uuid}
    BY <2>1, CandidatesFinite, FS_Singleton
  <2>3. members[i] = CHOOSE other \in candidates(references[i]) : TRUE
    BY DEF resolve_members
  <2>4. QED
    BY <2>2, <2>3
<1>4. DOMAIN members = DOMAIN references
  BY DEF resolve_members
<1>5. \A i \in DOMAIN references : members[i] \in Uuids
  BY <1>3, CandidatesTyped
<1>6. members = [i \in DOMAIN references |-> members[i]]
  BY DEF resolve_members
<1>. HIDE DEF members
<1>7. members \in Seq(Uuids)
  BY <1>2, <1>5, <1>6
<1>8. /\ Resolved(item).members = members /\ Resolved(item).references = ToSet(references)
      /\ Resolved(item).entry_uuid = item.entry_uuid /\ Resolved(item).groupname = item.groupname
      /\ Resolved(item) = [entry_uuid |-> item.entry_uuid, groupname |-> item.groupname,
                           members |-> members, references |-> ToSet(references)]
  BY DEF Resolved, members, references
<1>9. ToSet(members) = UNION {candidates(reference) : reference \in ToSet(references)}
  BY <1>3, <1>4 DEF ToSet
<1>10. ToSet(references) \subseteq Strings
  BY <1>2 DEF ToSet
<1>11. QED
  BY <1>1, <1>7, <1>8, <1>9, <1>10 DEF Groups

(***************************************************************************)
(* The rendered entries.                                                   *)
(***************************************************************************)

LEMMA EntryTyped ==
  ASSUME NEW class \in {"organization", "organizationalUnit", "inetOrgPerson",
                        "groupOfNames", "organizationalRole"},
         NEW dn \in DNs, NEW uuid \in Uuids, NEW member \in SUBSET DNs
  PROVE  /\ Entry(class, dn, uuid) \in Entries
         /\ [Entry(class, dn, uuid) EXCEPT !.member = member] \in Entries
         /\ [Entry(class, dn, uuid) EXCEPT !.memberOf = member] \in Entries
BY DEF Entry, Entries

\* The entries that are there for every definition.
LEMMA FixedRendered ==
  /\ BaseEntry \in Entries /\ BaseEntry.dn = Base /\ BaseEntry.uuid = BaseUuid
  /\ BaseEntry.class = "organization" /\ BaseEntry.member = {} /\ BaseEntry.memberOf = {}
  /\ \A name \in Containers :
       /\ Unit(name) \in Entries /\ Unit(name).dn = <<name>> /\ Unit(name).uuid = container_uuid[name]
       /\ Unit(name).class = "organizationalUnit" /\ Unit(name).member = {} /\ Unit(name).memberOf = {}
<1>1. BaseUuid \in Uuids /\ \A name \in Containers : container_uuid[name] \in Uuids
  BY DirectoryAssumption
<1>2. \A name \in Containers : <<name>> \in DNs /\ Base \in DNs
  BY InnerDN
<1>3. Base \in DNs
  BY <1>2 DEF Containers
<1>4. BaseEntry \in Entries
  BY <1>1, <1>3, EntryTyped DEF BaseEntry
<1>5. ASSUME NEW name \in Containers
      PROVE  Unit(name) \in Entries
  BY <1>1, <1>2, EntryTyped DEF Unit
<1>6. QED
  BY <1>4, <1>5 DEF BaseEntry, Unit, Entry

\* An active UUID is that of one user.
LEMMA ActiveUser ==
  ASSUME TypeOK, NEW uuid \in ActiveUuids
  PROVE  /\ \E i \in DOMAIN users : users[i].entry_uuid = uuid /\ users[i].active
         /\ UserOf(uuid) \in ToSet(users) /\ UserOf(uuid).entry_uuid = uuid
         /\ PersonDN(UserOf(uuid)) \in DNs
<1>1. \E i \in DOMAIN users : users[i].entry_uuid = uuid /\ users[i].active
  BY DEF ActiveUuids, ToSet, Published
<1>2. \E u \in ToSet(users) : u.entry_uuid = uuid
  BY <1>1, Items
<1>3. UserOf(uuid) \in ToSet(users) /\ UserOf(uuid).entry_uuid = uuid
  BY <1>2 DEF UserOf
<1>4. UserOf(uuid).username \in Strings
  BY <1>3, Items DEF ToSet
<1>5. PersonDN(UserOf(uuid)) \in DNs
  BY <1>4, LeafDN DEF PersonDN, Containers
<1>6. QED
  BY <1>1, <1>3, <1>5

LEMMA TheUser ==
  ASSUME TypeOK, DistinctUsers, NEW i \in DOMAIN users
  PROVE  UserOf(users[i].entry_uuid) = users[i]
<1>1. \A u \in ToSet(users) : u.entry_uuid = users[i].entry_uuid => u = users[i]
  BY DEF ToSet, DistinctUsers
<1>2. users[i] \in ToSet(users)
  BY DEF ToSet
<1>3. QED
  BY <1>1, <1>2 DEF UserOf

LEMMA ActiveTyped == TypeOK => ActiveUuids \subseteq Uuids
BY ActiveUser, Items

LEMMA GroupRendered ==
  ASSUME TypeOK, NEW i \in DOMAIN groups, NEW members \in SUBSET ActiveUuids
  PROVE  LET entry == GroupEntry(groups[i], members)
         IN  /\ entry \in Entries /\ entry.class = "groupOfNames"
             /\ entry.dn = <<groups[i].groupname, "groups">>
             /\ entry.uuid = groups[i].entry_uuid
             /\ entry.member = {PersonDN(UserOf(uuid)) : uuid \in members} /\ entry.memberOf = {}
<1>1. {PersonDN(UserOf(uuid)) : uuid \in members} \in SUBSET DNs
  BY ActiveUser
<1>2. GroupDN(groups[i]) \in DNs /\ groups[i].entry_uuid \in Uuids
  BY LeafDN, Items DEF GroupDN, Containers
<1>3. GroupEntry(groups[i], members) \in Entries
  BY <1>1, <1>2, EntryTyped DEF GroupEntry
<1>4. QED
  BY <1>3 DEF GroupEntry, Entry, GroupDN

LEMMA UserRendered ==
  ASSUME TypeOK, NEW i \in DOMAIN users
  PROVE  LET entry == UserEntry(users[i])
         IN  /\ memberships[users[i].entry_uuid] \in SUBSET DNs => entry \in Entries
             /\ entry.class = "inetOrgPerson" /\ entry.dn = <<users[i].username, "people">>
             /\ entry.uuid = users[i].entry_uuid
             /\ entry.member = {} /\ entry.memberOf = memberships[users[i].entry_uuid]
<1>1. PersonDN(users[i]) \in DNs /\ users[i].entry_uuid \in Uuids
  BY LeafDN, Items DEF PersonDN, Containers
<1>2. memberships[users[i].entry_uuid] \in SUBSET DNs => UserEntry(users[i]) \in Entries
  BY <1>1, EntryTyped DEF UserEntry
<1>3. QED
  BY <1>2 DEF UserEntry, Entry, PersonDN

LEMMA BindRendered ==
  ASSUME TypeOK, NEW i \in DOMAIN bind_accounts
  PROVE  LET entry == BindEntry(bind_accounts[i])
         IN  /\ entry \in Entries /\ entry.class = "organizationalRole"
             /\ entry.dn = <<bind_accounts[i].username, "services">>
             /\ entry.uuid = bind_accounts[i].entry_uuid
             /\ entry.member = {} /\ entry.memberOf = {}
<1>1. ServiceDN(bind_accounts[i]) \in DNs /\ bind_accounts[i].entry_uuid \in Uuids
  BY LeafDN, Items DEF ServiceDN, Containers
<1>2. BindEntry(bind_accounts[i]) \in Entries
  <2>1. {} \in SUBSET DNs
    OBVIOUS
  <2>2. QED
    BY <1>1, <2>1, EntryTyped DEF BindEntry
<1>3. QED
  BY <1>2 DEF BindEntry, Entry, ServiceDN

(***************************************************************************)
(* Types.                                                                  *)
(***************************************************************************)

\* The DNs that the attribute memberOf of an active user is built from.
LEMMA MembershipTypes ==
  ASSUME TypeOK, Listed, phase \in {"group_entries", "user_entries", "bind_entries", "write"}
  PROVE  /\ DOMAIN memberships = ActiveUuids
         /\ \A uuid \in ActiveUuids : memberships[uuid] \in SUBSET DNs
<1>1. memberships = [uuid \in ActiveUuids |-> GroupsOf(uuid)]
  BY DEF Listed, Rendering
<1>2. \A i \in DOMAIN groups : GroupDN(groups[i]) \in DNs
  BY Items, LeafDN DEF GroupDN, Containers
<1>3. QED
  BY <1>1, <1>2 DEF GroupsDone, GroupsOf

LEMMA ActiveItem ==
  ASSUME TypeOK, NEW i \in DOMAIN users, Published(users[i])
  PROVE  users[i].entry_uuid \in ActiveUuids
BY Items DEF ActiveUuids

LEMMA ParseTypes == TypeOK /\ Parsed /\ Parse => TypeOK'
<1>. SUFFICES ASSUME TypeOK, Parsed, Parse PROVE TypeOK'
  OBVIOUS
<1>1. UNCHANGED Output /\ phase' \in Parsing \cup Rendering \cup Ended
  BY DEF Parse, FormatError, ParseUser, ParseGroup, ParseBindAccount, EndOfList, CompareLists,
     Parsing, Rendering, Ended
<1>2. /\ entries' \in Seq(Entries) /\ ldif' \in Seq(Entries) /\ database' \in Seq(Entries)
      /\ DOMAIN memberships' \subseteq Uuids /\ next' \in 1..MaxItems + 1
  BY <1>1 DEF TypeOK, Output, rendering
<1>3. users' \in Seq(UserItems) /\ groups' \in Seq(Groups) /\ bind_accounts' \in Seq(BindItems)
  <2>1. CASE UNCHANGED definition
    BY <2>1 DEF definition, TypeOK
  <2>2. CASE ParseUser
    <3>1. UNCHANGED <<groups, bind_accounts>>
      BY <2>2 DEF ParseUser
    <3>2. UNCHANGED users \/ \E item \in UserItems : users' = Append(users, item)
      BY <2>2, Zenon DEF ParseUser
    <3>3. ASSUME NEW item \in UserItems PROVE Append(users, item) \in Seq(UserItems)
      BY Appended DEF TypeOK
    <3>4. QED
      BY <3>1, <3>2, <3>3, Zenon DEF TypeOK
  <2>3. CASE ParseGroup
    <3>1. UNCHANGED <<users, bind_accounts>>
      BY <2>3 DEF ParseGroup
    <3>2. \/ UNCHANGED groups
          \/ \E item \in GroupItems : Resolvable(item.members) /\ groups' = Append(groups, Resolved(item))
      BY <2>3, Zenon DEF ParseGroup, NewGroup
    <3>3. ASSUME NEW item \in GroupItems, Resolvable(item.members)
          PROVE  Append(groups, Resolved(item)) \in Seq(Groups)
      <4>1. Resolved(item) \in Groups
        BY <3>3, ResolvedMembers
      <4>2. QED
        BY <4>1, Appended DEF TypeOK
    <3>4. QED
      BY <3>1, <3>2, <3>3, Zenon DEF TypeOK
  <2>4. CASE ParseBindAccount
    <3>1. UNCHANGED <<users, groups>>
      BY <2>4 DEF ParseBindAccount
    <3>2. UNCHANGED bind_accounts \/ \E item \in BindItems : bind_accounts' = Append(bind_accounts, item)
      BY <2>4, Zenon DEF ParseBindAccount
    <3>3. ASSUME NEW item \in BindItems PROVE Append(bind_accounts, item) \in Seq(BindItems)
      BY Appended DEF TypeOK
    <3>4. QED
      BY <3>1, <3>2, <3>3, Zenon DEF TypeOK
  <2>5. QED
    BY <2>1, <2>2, <2>3, <2>4 DEF Parse, FormatError, EndOfList, CompareLists
<1>4. QED
  BY <1>1, <1>2, <1>3 DEF TypeOK

\* What the loops of simplified_entries do, for the item at their position.
LEMMA GroupLoop ==
  ASSUME TypeOK, Parsed, Listed, RenderGroup
  PROVE  /\ phase = "group_entries" /\ next \in DOMAIN groups /\ next \in 1..MaxItems /\ next' = next + 1
         /\ UNCHANGED <<phase, users, groups, bind_accounts, ldif, database>>
         /\ \/ Members(groups[next]) = {} /\ UNCHANGED <<entries, memberships>>
            \/ /\ Members(groups[next]) # {}
               /\ entries' = Append(entries, GroupEntry(groups[next], Members(groups[next])))
               /\ memberships' = [uuid \in ActiveUuids |->
                    IF uuid \in Members(groups[next])
                      THEN memberships[uuid] \cup {GroupDN(groups[next])} ELSE memberships[uuid]]
<1>1. phase = "group_entries" /\ next <= Len(groups) /\ next' = next + 1
      /\ UNCHANGED <<phase, users, groups, bind_accounts, ldif, database>>
  BY DEF RenderGroup, definition
<1>2. next \in 1..MaxItems + 1 /\ Len(groups) \in 0..MaxItems /\ MaxItems \in Nat
  BY DirectoryAssumption DEF TypeOK, Parsed
<1>3. DOMAIN memberships = ActiveUuids
  BY <1>1, MembershipTypes
<1>4. \/ Members(groups[next]) = {} /\ UNCHANGED <<entries, memberships>>
      \/ /\ Members(groups[next]) # {}
         /\ entries' = Append(entries, GroupEntry(groups[next], Members(groups[next])))
         /\ memberships' = [uuid \in ActiveUuids |->
              IF uuid \in Members(groups[next])
                THEN memberships[uuid] \cup {GroupDN(groups[next])} ELSE memberships[uuid]]
  BY <1>3, Zenon DEF RenderGroup, Members
<1>5. next \in 1..Len(groups) /\ next \in 1..MaxItems
  BY <1>1, <1>2
<1>6. QED
  BY <1>1, <1>4, <1>5, Items

LEMMA UserLoop ==
  ASSUME TypeOK, Parsed, RenderUser
  PROVE  /\ phase = "user_entries" /\ next \in DOMAIN users /\ next \in 1..MaxItems
         /\ UNCHANGED <<users, groups, bind_accounts, memberships, ldif, database>>
         /\ phase' = phase /\ next' = next + 1
         /\ \/ ~Published(users[next]) /\ UNCHANGED entries
            \/ Published(users[next]) /\ entries' = Append(entries, UserEntry(users[next]))
<1>1. phase = "user_entries" /\ next <= Len(users) /\ UNCHANGED <<users, groups, bind_accounts, memberships, ldif, database>>
  BY DEF RenderUser, definition
<1>2. next \in 1..MaxItems + 1 /\ Len(users) \in 0..MaxItems /\ MaxItems \in Nat
  BY DirectoryAssumption DEF TypeOK, Parsed
<1>3. next \in 1..Len(users) /\ next \in 1..MaxItems
  BY <1>1, <1>2
<1>4. next \in DOMAIN users /\ users[next] \in ToSet(users)
  BY <1>3, Items
<1>5. Published(users[next]) => users[next].credential
  BY <1>4 DEF Parsed, Published
<1>6. /\ phase' = phase /\ next' = next + 1
      /\ \/ ~Published(users[next]) /\ UNCHANGED entries
         \/ Published(users[next]) /\ entries' = Append(entries, UserEntry(users[next]))
  BY <1>5, Zenon DEF RenderUser, definition
<1>7. QED
  BY <1>1, <1>3, <1>4, <1>6

LEMMA BindLoop ==
  ASSUME TypeOK, Parsed, RenderBindAccount
  PROVE  /\ phase = "bind_entries" /\ next \in DOMAIN bind_accounts /\ next \in 1..MaxItems
         /\ UNCHANGED <<phase, users, groups, bind_accounts, memberships, ldif, database>> /\ next' = next + 1
         /\ entries' = Append(entries, BindEntry(bind_accounts[next]))
<1>1. /\ phase = "bind_entries" /\ next <= Len(bind_accounts)
      /\ UNCHANGED <<phase, users, groups, bind_accounts, memberships, ldif, database>> /\ next' = next + 1
      /\ entries' = Append(entries, BindEntry(bind_accounts[next]))
  BY Zenon DEF RenderBindAccount, definition
<1>2. next \in 1..MaxItems + 1 /\ Len(bind_accounts) \in 0..MaxItems /\ MaxItems \in Nat
  BY DirectoryAssumption DEF TypeOK, Parsed
<1>3. next \in 1..Len(bind_accounts) /\ next \in 1..MaxItems
  BY <1>1, <1>2
<1>4. QED
  BY <1>1, <1>3, Items

LEMMA RenderTypes == TypeOK /\ Parsed /\ Listed /\ Render => TypeOK'
<1>. SUFFICES ASSUME TypeOK, Parsed, Listed, Render PROVE TypeOK'
  OBVIOUS
<1>1. MaxItems \in Nat /\ entries \in Seq(Entries)
  BY DirectoryAssumption DEF TypeOK
<1>2. CASE RenderBase
  <2>1. /\ phase' \in Rendering /\ UNCHANGED <<users, groups, bind_accounts, next, ldif, database>>
        /\ entries' = <<BaseEntry, Unit("people"), Unit("groups"), Unit("services")>>
        /\ DOMAIN memberships' = ActiveUuids
    BY <1>2 DEF RenderBase, Rendering, definition
  <2>2. \A name \in {"people", "groups", "services"} : Unit(name) \in Entries
    BY FixedRendered DEF Containers
  <2>3. entries' \in Seq(Entries)
    BY <2>1, <2>2, FixedRendered
  <2>4. QED
    BY <2>1, <2>3, ActiveTyped DEF TypeOK
<1>3. CASE RenderGroup
  <2>1. DOMAIN memberships' = ActiveUuids
    BY <1>3, GroupLoop, MembershipTypes
  <2>2. GroupEntry(groups[next], Members(groups[next])) \in Entries
    BY <1>3, GroupLoop, GroupRendered DEF Members
  <2>3. entries' \in Seq(Entries)
    BY <1>1, <1>3, <2>2, GroupLoop, Appended
  <2>4. next' \in 1..MaxItems + 1 /\ UNCHANGED <<phase, users, groups, bind_accounts, ldif, database>>
    BY <1>1, <1>3, GroupLoop
  <2>5. QED
    BY <2>1, <2>3, <2>4, ActiveTyped DEF TypeOK
<1>4. CASE RenderUser
  <2>1. ASSUME Published(users[next]) PROVE UserEntry(users[next]) \in Entries
    <3>1. memberships[users[next].entry_uuid] \in SUBSET DNs
      BY <1>4, <2>1, UserLoop, MembershipTypes, ActiveItem
    <3>2. QED
      BY <1>4, <3>1, UserLoop, UserRendered
  <2>2. entries' \in Seq(Entries)
    BY <1>1, <1>4, <2>1, UserLoop, Appended
  <2>3. next' \in 1..MaxItems + 1 /\ UNCHANGED <<phase, users, groups, bind_accounts, memberships, ldif, database>>
    BY <1>1, <1>4, UserLoop
  <2>4. QED
    BY <2>2, <2>3 DEF TypeOK
<1>5. CASE RenderBindAccount
  <2>1. entries' \in Seq(Entries)
    BY <1>1, <1>5, BindLoop, BindRendered, Appended
  <2>2. next' \in 1..MaxItems + 1 /\ UNCHANGED <<phase, users, groups, bind_accounts, memberships, ldif, database>>
    BY <1>1, <1>5, BindLoop
  <2>3. QED
    BY <2>1, <2>2 DEF TypeOK
<1>6. CASE CredentialUnreadable
  BY <1>6 DEF CredentialUnreadable, Output, rendering, definition, TypeOK, Ended
<1>7. CASE EndOfLoop
  BY <1>1, <1>7 DEF EndOfLoop, definition, TypeOK, Rendering
<1>8. QED
  BY <1>2, <1>3, <1>4, <1>5, <1>6, <1>7 DEF Render

LEMMA BuildTypes == TypeOK /\ Parsed /\ Listed /\ Build => TypeOK'
<1>. SUFFICES ASSUME TypeOK, Parsed, Listed, Build PROVE TypeOK'
  OBVIOUS
<1>1. UNCHANGED <<definition, rendering>> /\ phase' \in Building \cup Ended
  BY DEF Build, WriteDirectory, ValidateInputs, import_directory_data, verify_built_database,
     Building, Ended
<1>2. ldif' \in Seq(Entries) /\ database' \in Seq(Entries)
  <2>1. CASE WriteDirectory
    <3>1. phase = "write" /\ ldif' = ByDepth(entries) /\ UNCHANGED database
      BY <2>1 DEF WriteDirectory
    <3>2. ParentsFirst(entries) /\ entries \in Seq(Entries)
      BY <3>1 DEF Listed, Rendering, TypeOK
    <3>3. QED
      BY <3>1, <3>2, SortKeeps DEF TypeOK
  <2>2. CASE ValidateInputs \/ import_directory_data \/ verify_built_database
    BY <2>2 DEF ValidateInputs, import_directory_data, verify_built_database, TypeOK
  <2>3. QED
    BY <2>1, <2>2 DEF Build
<1>3. QED
  BY <1>1, <1>2 DEF TypeOK, definition, rendering

LEMMA TypeStep == TypeOK /\ Parsed /\ Listed /\ [Next]_vars => TypeOK'
<1>1. TypeOK /\ UNCHANGED vars => TypeOK'
  BY DEF TypeOK, vars, definition, rendering
<1>2. QED
  BY <1>1, ParseTypes, RenderTypes, BuildTypes DEF Next, Finished

(***************************************************************************)
(* What is parsed.                                                         *)
(***************************************************************************)

LEMMA ParsedStays ==
  ASSUME Parsed, UNCHANGED <<users, groups, bind_accounts>>,
         phase' = "users" => phase = "users",
         phase' \in Parsing \cup {"base"} => next' = 1,
         phase' \notin Parsing \cup {"refused"} => DistinctNames /\ DistinctUuids
  PROVE  Parsed'
<1>1. \A reference : candidates(reference)' = candidates(reference)
  BY DEF candidates
<1>2. DistinctNames' = DistinctNames /\ DistinctUuids' = DistinctUuids
  BY DEF DistinctNames, DistinctUuids
<1>3. \A g \in ToSet(groups) : ToSet(g.members) = UNION {candidates(reference)' : reference \in g.references}
  BY <1>1 DEF Parsed
<1>4. QED
  BY <1>2, <1>3 DEF Parsed, DistinctUsers, DistinctGroups, DistinctBinds

LEMMA UserParsed ==
  ASSUME TypeOK, Parsed, ParseUser
  PROVE  Parsed'
<1>1. /\ phase = "users" /\ Len(users) < MaxItems /\ groups = << >> /\ next = 1
      /\ UNCHANGED <<groups, bind_accounts, next>>
  BY DEF ParseUser, Parsed, Parsing, Output, rendering
<1>2. \/ phase' = "refused" /\ UNCHANGED users
      \/ UNCHANGED phase /\ \E item \in UserItems : NewUser(item) /\ users' = Append(users, item)
  BY Zenon DEF ParseUser
<1>3. CASE phase' = "refused" /\ UNCHANGED users
  BY <1>1, <1>3, ParsedStays DEF Parsing
<1>4. ASSUME NEW item \in UserItems, NewUser(item), users' = Append(users, item), UNCHANGED phase
      PROVE  Parsed'
  <2>1. /\ DOMAIN users = 1..Len(users) /\ Len(users) \in Nat /\ DOMAIN users' = 1..Len(users) + 1
        /\ \A i \in DOMAIN users : users'[i] = users[i] /\ users[i] \in ToSet(users)
        /\ users'[Len(users) + 1] = item /\ Len(users') = Len(users) + 1
        /\ ToSet(users') = ToSet(users) \cup {item}
    <3>1. users \in Seq(UserItems)
      BY DEF TypeOK
    <3>2. QED
      BY <1>4, <3>1, Appended DEF ToSet
  <2>2. \A u \in ToSet(users) : item.entry_uuid # u.entry_uuid /\ Fold[item.username] # Fold[u.username]
    BY <1>4 DEF NewUser, UuidsOf, NamesOf
  <2>3. \A i \in DOMAIN users' : i \in DOMAIN users \/ i = Len(users) + 1
    BY <2>1
  <2>4. DistinctUsers'
    <3>. SUFFICES ASSUME NEW i \in DOMAIN users', NEW j \in DOMAIN users', i # j
                  PROVE  /\ users'[i].entry_uuid # users'[j].entry_uuid
                         /\ Fold[users'[i].username] # Fold[users'[j].username]
      BY DEF DistinctUsers
    <3>1. CASE i \in DOMAIN users /\ j \in DOMAIN users
      BY <2>1, <3>1 DEF Parsed, DistinctUsers
    <3>2. CASE i = Len(users) + 1 /\ j \in DOMAIN users
      BY <2>1, <2>2, <3>2
    <3>3. CASE i \in DOMAIN users /\ j = Len(users) + 1
      BY <2>1, <2>2, <3>3
    <3>4. QED
      BY <2>3, <3>1, <3>2, <3>3
  <2>5. \A u \in ToSet(users') : u.active => u.credential
    BY <1>4, <2>1 DEF Parsed, NewUser
  <2>6. Len(users') \in 0..MaxItems
    BY <1>1, <2>1, DirectoryAssumption
  <2>7. ToSet(groups') = {}
    BY <1>1 DEF ToSet
  <2>8. DistinctGroups' /\ DistinctBinds'
    BY <1>1 DEF Parsed, DistinctGroups, DistinctBinds
  <2>9. phase' = "users" /\ groups' = << >> /\ next' = 1
        /\ Len(groups') \in 0..MaxItems /\ Len(bind_accounts') \in 0..MaxItems
    BY <1>1, <1>4 DEF Parsed
  <2>10. QED
    BY <2>4, <2>5, <2>6, <2>7, <2>8, <2>9 DEF Parsed, Parsing
<1>5. QED
  BY <1>2, <1>3, <1>4

LEMMA GroupParsed ==
  ASSUME TypeOK, Parsed, ParseGroup
  PROVE  Parsed'
<1>1. /\ phase = "groups" /\ Len(groups) < MaxItems /\ next = 1
      /\ UNCHANGED <<users, bind_accounts, next>>
  BY DEF ParseGroup, Parsed, Parsing, Output, rendering
<1>2. \/ phase' = "refused" /\ UNCHANGED groups
      \/ UNCHANGED phase /\ \E item \in GroupItems : NewGroup(item) /\ groups' = Append(groups, Resolved(item))
  BY Zenon DEF ParseGroup
<1>3. CASE phase' = "refused" /\ UNCHANGED groups
  BY <1>1, <1>3, ParsedStays DEF Parsing
<1>4. ASSUME NEW item \in GroupItems, NewGroup(item), groups' = Append(groups, Resolved(item)),
             UNCHANGED phase
      PROVE  Parsed'
  <2>. DEFINE group == Resolved(item)
  <2>1. /\ group \in Groups
        /\ ToSet(group.members) = UNION {candidates(reference) : reference \in group.references}
        /\ group.entry_uuid = item.entry_uuid /\ group.groupname = item.groupname
    BY <1>4, ResolvedMembers DEF NewGroup
  <2>. HIDE DEF group
  <2>2. groups' = Append(groups, group) /\ groups \in Seq(Groups)
    BY <1>4 DEF group, TypeOK
  <2>3. /\ DOMAIN groups = 1..Len(groups) /\ Len(groups) \in Nat /\ DOMAIN groups' = 1..Len(groups) + 1
        /\ \A i \in DOMAIN groups : groups'[i] = groups[i] /\ groups[i] \in ToSet(groups)
        /\ groups'[Len(groups) + 1] = group /\ Len(groups') = Len(groups) + 1
        /\ ToSet(groups') = ToSet(groups) \cup {group}
    BY <2>1, <2>2, Appended DEF ToSet
  <2>4. \A g \in ToSet(groups) : group.entry_uuid # g.entry_uuid /\ Fold[group.groupname] # Fold[g.groupname]
    BY <1>4, <2>1 DEF NewGroup, UuidsOf
  <2>5. \A i \in DOMAIN groups' : i \in DOMAIN groups \/ i = Len(groups) + 1
    BY <2>3
  <2>6. DistinctGroups'
    <3>. SUFFICES ASSUME NEW i \in DOMAIN groups', NEW j \in DOMAIN groups', i # j
                  PROVE  /\ groups'[i].entry_uuid # groups'[j].entry_uuid
                         /\ Fold[groups'[i].groupname] # Fold[groups'[j].groupname]
      BY DEF DistinctGroups
    <3>1. CASE i \in DOMAIN groups /\ j \in DOMAIN groups
      BY <2>3, <3>1 DEF Parsed, DistinctGroups
    <3>2. CASE i = Len(groups) + 1 /\ j \in DOMAIN groups
      BY <2>3, <2>4, <3>2
    <3>3. CASE i \in DOMAIN groups /\ j = Len(groups) + 1
      BY <2>3, <2>4, <3>3
    <3>4. QED
      BY <2>5, <3>1, <3>2, <3>3
  <2>7. \A reference : candidates(reference)' = candidates(reference)
    BY <1>1 DEF candidates
  <2>8. \A g \in ToSet(groups') :
          ToSet(g.members) = UNION {candidates(reference)' : reference \in g.references}
    BY <2>1, <2>3, <2>7 DEF Parsed
  <2>9. Len(groups') \in 0..MaxItems
    BY <1>1, <2>3, DirectoryAssumption
  <2>10. DistinctUsers' /\ DistinctBinds' /\ \A u \in ToSet(users') : u.active => u.credential
    BY <1>1 DEF Parsed, DistinctUsers, DistinctBinds
  <2>11. phase' = "groups" /\ next' = 1
         /\ Len(users') \in 0..MaxItems /\ Len(bind_accounts') \in 0..MaxItems
    BY <1>1, <1>4 DEF Parsed
  <2>12. QED
    BY <2>6, <2>8, <2>9, <2>10, <2>11 DEF Parsed, Parsing
<1>5. QED
  BY <1>2, <1>3, <1>4

LEMMA BindParsed ==
  ASSUME TypeOK, Parsed, ParseBindAccount
  PROVE  Parsed'
<1>1. /\ phase = "bind_accounts" /\ Len(bind_accounts) < MaxItems /\ next = 1
      /\ UNCHANGED <<users, groups, next>>
  BY DEF ParseBindAccount, Parsed, Parsing, Output, rendering
<1>2. \/ phase' = "refused" /\ UNCHANGED bind_accounts
      \/ UNCHANGED phase /\ \E item \in BindItems : NewBind(item) /\ bind_accounts' = Append(bind_accounts, item)
  BY Zenon DEF ParseBindAccount
<1>3. CASE phase' = "refused" /\ UNCHANGED bind_accounts
  BY <1>1, <1>3, ParsedStays DEF Parsing
<1>4. ASSUME NEW item \in BindItems, NewBind(item), bind_accounts' = Append(bind_accounts, item),
             UNCHANGED phase
      PROVE  Parsed'
  <2>1. /\ DOMAIN bind_accounts = 1..Len(bind_accounts) /\ Len(bind_accounts) \in Nat
        /\ DOMAIN bind_accounts' = 1..Len(bind_accounts) + 1
        /\ \A i \in DOMAIN bind_accounts :
             bind_accounts'[i] = bind_accounts[i] /\ bind_accounts[i] \in ToSet(bind_accounts)
        /\ bind_accounts'[Len(bind_accounts) + 1] = item
        /\ Len(bind_accounts') = Len(bind_accounts) + 1
    BY <1>4, Appended DEF TypeOK, ToSet
  <2>2. \A b \in ToSet(bind_accounts) :
          item.entry_uuid # b.entry_uuid /\ Fold[item.username] # Fold[b.username]
    BY <1>4 DEF NewBind, UuidsOf, NamesOf
  <2>3. \A i \in DOMAIN bind_accounts' : i \in DOMAIN bind_accounts \/ i = Len(bind_accounts) + 1
    BY <2>1
  <2>4. DistinctBinds'
    <3>. SUFFICES ASSUME NEW i \in DOMAIN bind_accounts', NEW j \in DOMAIN bind_accounts', i # j
                  PROVE  /\ bind_accounts'[i].entry_uuid # bind_accounts'[j].entry_uuid
                         /\ Fold[bind_accounts'[i].username] # Fold[bind_accounts'[j].username]
      BY DEF DistinctBinds
    <3>1. CASE i \in DOMAIN bind_accounts /\ j \in DOMAIN bind_accounts
      BY <2>1, <3>1 DEF Parsed, DistinctBinds
    <3>2. CASE i = Len(bind_accounts) + 1 /\ j \in DOMAIN bind_accounts
      BY <2>1, <2>2, <3>2
    <3>3. CASE i \in DOMAIN bind_accounts /\ j = Len(bind_accounts) + 1
      BY <2>1, <2>2, <3>3
    <3>4. QED
      BY <2>3, <3>1, <3>2, <3>3
  <2>5. \A reference : candidates(reference)' = candidates(reference)
    BY <1>1 DEF candidates
  <2>6. \A g \in ToSet(groups') :
          ToSet(g.members) = UNION {candidates(reference)' : reference \in g.references}
    BY <1>1, <2>5 DEF Parsed
  <2>7. Len(bind_accounts') \in 0..MaxItems
    BY <1>1, <2>1, DirectoryAssumption
  <2>8. DistinctUsers' /\ DistinctGroups' /\ \A u \in ToSet(users') : u.active => u.credential
    BY <1>1 DEF Parsed, DistinctUsers, DistinctGroups
  <2>9. phase' = "bind_accounts" /\ next' = 1
        /\ Len(users') \in 0..MaxItems /\ Len(groups') \in 0..MaxItems
    BY <1>1, <1>4 DEF Parsed
  <2>10. QED
    BY <2>4, <2>6, <2>7, <2>8, <2>9 DEF Parsed, Parsing
<1>5. QED
  BY <1>2, <1>3, <1>4

LEMMA ParsedStep == TypeOK /\ Parsed /\ Listed /\ [Next]_vars => Parsed'
<1>. SUFFICES ASSUME TypeOK, Parsed, Listed, [Next]_vars PROVE Parsed'
  OBVIOUS
<1>1. CASE UNCHANGED vars
  <2>1. UNCHANGED <<phase, users, groups, bind_accounts, next>>
    BY <1>1 DEF vars, definition, rendering
  <2>2. QED
    BY <2>1, ParsedStays DEF Parsed
<1>2. CASE Render
  <2>1. /\ UNCHANGED <<users, groups, bind_accounts>> /\ phase \in Rendering
        /\ phase' \in (Rendering \ {"base"}) \cup {"refused", "failed"}
    BY <1>2 DEF Render, RenderBase, RenderGroup, RenderUser, RenderBindAccount,
       CredentialUnreadable, EndOfLoop, Output, rendering, Rendering, definition
  <2>2. DistinctNames /\ DistinctUuids
    BY <2>1 DEF Parsed, Rendering, Parsing
  <2>3. QED
    BY <2>1, <2>2, ParsedStays DEF Rendering, Parsing
<1>3. CASE Build
  <2>1. /\ UNCHANGED <<users, groups, bind_accounts>> /\ phase \in {"write"} \cup Building
        /\ phase' \in Building \cup {"invalid", "rejected", "built"}
    BY <1>3 DEF Build, WriteDirectory, ValidateInputs, import_directory_data, verify_built_database,
       Building, definition
  <2>2. QED
    BY <2>1, ParsedStays DEF Parsed, Building, Parsing
<1>4. CASE FormatError
  <2>1. UNCHANGED <<users, groups, bind_accounts>> /\ phase' = "refused"
    BY <1>4 DEF FormatError, definition
  <2>2. QED
    BY <2>1, ParsedStays DEF Parsing
<1>5. CASE EndOfList
  <2>1. UNCHANGED <<users, groups, bind_accounts, next>> /\ phase \in Parsing
        /\ phase' \in {"groups", "bind_accounts", "directory"}
    BY <1>5 DEF EndOfList, Output, rendering, definition, Parsing
  <2>2. QED
    BY <2>1, ParsedStays DEF Parsed, Parsing
<1>6. CASE CompareLists
  <2>1. UNCHANGED <<users, groups, bind_accounts, next>> /\ phase \in Parsing
    BY <1>6 DEF CompareLists, Output, rendering, definition, Parsing
  <2>2. phase' = "refused" \/ (phase' = "base" /\ DistinctNames /\ DistinctUuids)
    BY <1>6, Zenon DEF CompareLists
  <2>3. QED
    BY <2>1, <2>2, ParsedStays DEF Parsed, Parsing
<1>7. QED
  BY <1>1, <1>2, <1>3, <1>4, <1>5, <1>6, UserParsed, GroupParsed, BindParsed DEF Next, Parse, Finished

(***************************************************************************)
(* What is rendered.                                                       *)
(***************************************************************************)

\* Entries are about the definition, which the renderer leaves alone.
LEMMA SameEntries ==
  ASSUME UNCHANGED <<users, groups, bind_accounts>>
  PROVE  /\ ActiveUuids' = ActiveUuids
         /\ \A g : Members(g)' = Members(g)
         /\ \A g, members : GroupEntry(g, members)' = GroupEntry(g, members)
<1>1. ActiveUuids' = ActiveUuids
  BY DEF ActiveUuids, Published
<1>2. \A uuid : UserOf(uuid)' = UserOf(uuid)
  BY DEF UserOf
<1>3. \A g, members : {PersonDN(UserOf(uuid)') : uuid \in members} = {PersonDN(UserOf(uuid)) : uuid \in members}
  BY <1>2
<1>4. \A g, members : GroupEntry(g, members)' = GroupEntry(g, members)
  BY <1>3 DEF GroupEntry
<1>5. QED
  BY <1>1, <1>4 DEF Members

LEMMA ListedStays ==
  ASSUME Listed, UNCHANGED <<users, groups, bind_accounts, entries, memberships>>,
         phase \in (Rendering \ {"base"}) \cup Building \cup {"built"},
         UNCHANGED <<GroupsDone, UsersDone, BindsDone>>
  PROVE  Listed'
<1>1. \A uuid : GroupsOf(uuid)' = GroupsOf(uuid)
  BY DEF GroupsOf
<1>2. RenderedGroups' = RenderedGroups
  BY SameEntries DEF RenderedGroups
<1>3. RenderedUsers' = RenderedUsers
  BY DEF RenderedUsers, UserEntry, Published
<1>4. RenderedBinds' = RenderedBinds
  BY DEF RenderedBinds
<1>5. FixedEntries' = FixedEntries
  BY DEF FixedEntries
<1>6. UNCHANGED <<Unique(entries), ParentsFirst(entries)>>
  BY DEF Unique, ParentsFirst
<1>7. [uuid \in ActiveUuids |-> GroupsOf(uuid)]' = [uuid \in ActiveUuids |-> GroupsOf(uuid)]
  BY <1>1, SameEntries
<1>8. QED
  BY <1>2, <1>3, <1>4, <1>5, <1>6, <1>7 DEF Listed

\* The loops one after the other.
LEMMA LoopEnds ==
  ASSUME TypeOK, Listed, EndOfLoop
  PROVE  Listed'
<1>1. UNCHANGED <<users, groups, bind_accounts, entries, memberships>> /\ next' = 1
  BY DEF EndOfLoop, definition
<1>2. /\ DOMAIN users \subseteq Nat \ {0} /\ DOMAIN groups \subseteq Nat \ {0}
      /\ DOMAIN bind_accounts \subseteq Nat \ {0} /\ next \in Nat
  BY Items, DirectoryAssumption DEF TypeOK
<1>3. \/ phase = "group_entries" /\ phase' = "user_entries" /\ \A i \in DOMAIN groups : i < next
      \/ phase = "user_entries" /\ phase' = "bind_entries" /\ \A i \in DOMAIN users : i < next
      \/ phase = "bind_entries" /\ phase' = "write" /\ \A i \in DOMAIN bind_accounts : i < next
  BY <1>2, Items DEF EndOfLoop
<1>4. UNCHANGED <<GroupsDone, UsersDone, BindsDone>>
  BY <1>1, <1>2, <1>3 DEF GroupsDone, UsersDone, BindsDone
<1>5. QED
  BY <1>1, <1>3, <1>4, ListedStays DEF Rendering

LEMMA FilesListed ==
  ASSUME Listed, Build
  PROVE  Listed'
<1>1. /\ UNCHANGED <<users, groups, bind_accounts, entries, memberships>>
      /\ phase \in {"write"} \cup Building /\ phase' \in Building \cup {"invalid", "rejected", "built"}
  BY DEF Build, WriteDirectory, ValidateInputs, import_directory_data, verify_built_database,
     Building, definition, rendering
<1>2. UNCHANGED <<GroupsDone, UsersDone, BindsDone>>
  BY <1>1 DEF GroupsDone, UsersDone, BindsDone, Building
<1>3. QED
  BY <1>1, <1>2, ListedStays DEF Rendering

\* The UUIDs of entries of different kinds.
LEMMA UuidsApart ==
  ASSUME TypeOK, DistinctUuids
  PROVE  /\ \A i \in DOMAIN users : users[i].entry_uuid \notin GeneratedUuids
         /\ \A i \in DOMAIN groups : groups[i].entry_uuid \notin GeneratedUuids
         /\ \A i \in DOMAIN bind_accounts : bind_accounts[i].entry_uuid \notin GeneratedUuids
         /\ \A i \in DOMAIN users, j \in DOMAIN groups : users[i].entry_uuid # groups[j].entry_uuid
         /\ \A i \in DOMAIN users, j \in DOMAIN bind_accounts :
              users[i].entry_uuid # bind_accounts[j].entry_uuid
         /\ \A i \in DOMAIN groups, j \in DOMAIN bind_accounts :
              groups[i].entry_uuid # bind_accounts[j].entry_uuid
<1>1. /\ \A i \in DOMAIN users : users[i].entry_uuid \in UuidsOf(users)
      /\ \A i \in DOMAIN groups : groups[i].entry_uuid \in UuidsOf(groups)
      /\ \A i \in DOMAIN bind_accounts : bind_accounts[i].entry_uuid \in UuidsOf(bind_accounts)
  BY Items DEF UuidsOf
<1>2. QED
  BY <1>1 DEF DistinctUuids

\* What the entries of each kind are found by.
LEMMA FixedKeys ==
  ASSUME NEW entry \in FixedEntries
  PROVE  /\ Len(entry.dn) <= 1 /\ dn_key(entry.dn) = entry.dn /\ entry.uuid \in GeneratedUuids
         /\ Len(dn_key(entry.dn)) # 2 /\ entry.member = {} /\ entry.memberOf = {}
         /\ entry.class \in {"organization", "organizationalUnit"} /\ entry \in Entries
<1>1. CASE entry = BaseEntry
  <2>1. "people" \in Containers
    BY DEF Containers
  <2>2. Len(Base) = 0 /\ dn_key(Base) = Base
    BY <2>1, InnerDN
  <2>3. QED
    BY <1>1, <2>2, FixedRendered DEF GeneratedUuids
<1>2. ASSUME NEW name \in Containers, entry = Unit(name)
      PROVE  /\ Len(entry.dn) <= 1 /\ dn_key(entry.dn) = entry.dn /\ entry.uuid \in GeneratedUuids
             /\ Len(dn_key(entry.dn)) # 2 /\ entry.member = {} /\ entry.memberOf = {}
             /\ entry.class \in {"organization", "organizationalUnit"} /\ entry \in Entries
  <2>1. Len(<<name>>) = 1 /\ dn_key(<<name>>) = <<name>>
    BY InnerDN
  <2>2. /\ entry \in Entries /\ entry.dn = <<name>> /\ entry.uuid = container_uuid[name]
        /\ entry.class = "organizationalUnit" /\ entry.member = {} /\ entry.memberOf = {}
    BY <1>2, FixedRendered
  <2>3. Len(entry.dn) = 1 /\ dn_key(entry.dn) = entry.dn /\ Len(dn_key(entry.dn)) = 1
    BY <2>1, <2>2
  <2>4. QED
    BY <2>2, <2>3 DEF GeneratedUuids
<1>3. QED
  BY <1>1, <1>2 DEF FixedEntries

LEMMA GroupKeys ==
  ASSUME TypeOK, NEW i \in DOMAIN groups
  PROVE  LET entry == GroupEntry(groups[i], Members(groups[i]))
         IN  /\ Len(entry.dn) = 2 /\ dn_key(entry.dn) = <<Fold[groups[i].groupname], "groups">>
             /\ Len(dn_key(entry.dn)) = 2 /\ entry.uuid = groups[i].entry_uuid /\ entry \in Entries
             /\ entry.class = "groupOfNames" /\ entry.memberOf = {} /\ entry.dn = GroupDN(groups[i])
             /\ entry.member = {PersonDN(UserOf(uuid)) : uuid \in Members(groups[i])}
<1>1. LET entry == GroupEntry(groups[i], Members(groups[i]))
      IN  /\ entry \in Entries /\ entry.class = "groupOfNames"
          /\ entry.dn = <<groups[i].groupname, "groups">> /\ entry.uuid = groups[i].entry_uuid
          /\ entry.member = {PersonDN(UserOf(uuid)) : uuid \in Members(groups[i])}
          /\ entry.memberOf = {}
  <2>1. Members(groups[i]) \in SUBSET ActiveUuids
    BY DEF Members
  <2>2. QED
    BY <2>1, GroupRendered
<1>2. groups[i].groupname \in Strings /\ "groups" \in Containers
  BY Items DEF Containers
<1>3. LET dn == <<groups[i].groupname, "groups">>
      IN  Len(dn) = 2 /\ dn_key(dn) = <<Fold[groups[i].groupname], "groups">> /\ Len(dn_key(dn)) = 2
  BY <1>2, LeafDN
<1>4. QED
  BY <1>1, <1>3 DEF GroupDN

LEMMA UserKeys ==
  ASSUME TypeOK, NEW i \in DOMAIN users
  PROVE  LET entry == UserEntry(users[i])
         IN  /\ Len(entry.dn) = 2 /\ dn_key(entry.dn) = <<Fold[users[i].username], "people">>
             /\ Len(dn_key(entry.dn)) = 2 /\ entry.uuid = users[i].entry_uuid
             /\ entry.class = "inetOrgPerson" /\ entry.member = {} /\ entry.dn = PersonDN(users[i])
             /\ entry.memberOf = memberships[users[i].entry_uuid]
<1>1. users[i].username \in Strings /\ "people" \in Containers
  BY Items DEF Containers
<1>2. LET dn == <<users[i].username, "people">>
      IN  Len(dn) = 2 /\ dn_key(dn) = <<Fold[users[i].username], "people">> /\ Len(dn_key(dn)) = 2
  BY <1>1, LeafDN
<1>3. QED
  BY <1>2, UserRendered DEF PersonDN

LEMMA BindKeys ==
  ASSUME TypeOK, NEW i \in DOMAIN bind_accounts
  PROVE  LET entry == BindEntry(bind_accounts[i])
         IN  /\ Len(entry.dn) = 2 /\ dn_key(entry.dn) = <<Fold[bind_accounts[i].username], "services">>
             /\ Len(dn_key(entry.dn)) = 2 /\ entry.uuid = bind_accounts[i].entry_uuid /\ entry \in Entries
             /\ entry.class = "organizationalRole" /\ entry.member = {} /\ entry.memberOf = {}
             /\ entry.dn = <<bind_accounts[i].username, "services">>
<1>1. bind_accounts[i].username \in Strings /\ "services" \in Containers
  BY Items DEF Containers
<1>2. LET dn == <<bind_accounts[i].username, "services">>
      IN  /\ Len(dn) = 2 /\ dn_key(dn) = <<Fold[bind_accounts[i].username], "services">>
          /\ Len(dn_key(dn)) = 2
  BY <1>1, LeafDN
<1>3. QED
  BY <1>2, BindRendered

\* An entry clashes with none of the list, and is no deeper than the last.
Fresh(entry) ==
  \A other \in ToSet(entries) :
    /\ dn_key(other.dn) # dn_key(entry.dn) /\ other.uuid # entry.uuid
    /\ Len(other.dn) <= Len(entry.dn)

LEMMA FreshGroup ==
  ASSUME TypeOK, Parsed, Listed, phase = "group_entries", next \in DOMAIN groups
  PROVE  Fresh(GroupEntry(groups[next], Members(groups[next])))
<1>. DEFINE entry == GroupEntry(groups[next], Members(groups[next]))
<1>1. /\ Len(entry.dn) = 2 /\ dn_key(entry.dn) = <<Fold[groups[next].groupname], "groups">>
      /\ Len(dn_key(entry.dn)) = 2 /\ entry.uuid = groups[next].entry_uuid
  BY GroupKeys
<1>. HIDE DEF entry
<1>2. DistinctUuids /\ DistinctGroups
  BY DEF Parsed, Parsing
<1>3. /\ ToSet(entries) = FixedEntries \cup RenderedGroups \cup RenderedUsers \cup RenderedBinds
      /\ UsersDone = {} /\ BindsDone = {}
  BY DEF Listed, Rendering, UsersDone, BindsDone
<1>. SUFFICES ASSUME NEW other \in ToSet(entries)
              PROVE  /\ dn_key(other.dn) # dn_key(entry.dn) /\ other.uuid # entry.uuid
                     /\ Len(other.dn) <= Len(entry.dn)
  BY DEF Fresh, entry
<1>4. CASE other \in FixedEntries
  <2>1. /\ Len(other.dn) <= 1 /\ Len(dn_key(other.dn)) # 2
        /\ other.uuid \in GeneratedUuids
    BY <1>4, FixedKeys
  <2>2. entry.uuid \notin GeneratedUuids
    BY <1>1, <1>2, UuidsApart
  <2>3. Len(entry.dn) = 2 /\ Len(dn_key(entry.dn)) = 2
    BY <1>1
  <2>4. dn_key(other.dn) # dn_key(entry.dn)
    BY <2>1, <2>3
  <2>5. Len(other.dn) <= Len(entry.dn)
    BY <2>1, <2>3
  <2>6. other.uuid # entry.uuid
    BY <2>1, <2>2
  <2>7. QED
    BY <2>4, <2>5, <2>6
<1>5. CASE other \in RenderedGroups
  <2>1. PICK i \in GroupsDone : other = GroupEntry(groups[i], Members(groups[i]))
    BY <1>5 DEF RenderedGroups
  <2>2. i \in DOMAIN groups /\ i # next
    BY <2>1, Items DEF GroupsDone
  <2>3. /\ Len(other.dn) = 2 /\ dn_key(other.dn) = <<Fold[groups[i].groupname], "groups">>
        /\ other.uuid = groups[i].entry_uuid
    BY <2>1, <2>2, GroupKeys
  <2>4. QED
    BY <1>1, <1>2, <2>2, <2>3 DEF DistinctGroups
<1>6. QED
  BY <1>3, <1>4, <1>5 DEF RenderedUsers, RenderedBinds

LEMMA FreshUser ==
  ASSUME TypeOK, Parsed, Listed, phase = "user_entries", next \in DOMAIN users
  PROVE  Fresh(UserEntry(users[next]))
<1>. DEFINE entry == UserEntry(users[next])
<1>1. /\ Len(entry.dn) = 2 /\ dn_key(entry.dn) = <<Fold[users[next].username], "people">>
      /\ Len(dn_key(entry.dn)) = 2 /\ entry.uuid = users[next].entry_uuid
  BY UserKeys
<1>. HIDE DEF entry
<1>2. DistinctUuids /\ DistinctUsers
  BY DEF Parsed, Parsing
<1>3. /\ ToSet(entries) = FixedEntries \cup RenderedGroups \cup RenderedUsers \cup RenderedBinds
      /\ BindsDone = {}
  BY DEF Listed, Rendering, BindsDone
<1>. SUFFICES ASSUME NEW other \in ToSet(entries)
              PROVE  /\ dn_key(other.dn) # dn_key(entry.dn) /\ other.uuid # entry.uuid
                     /\ Len(other.dn) <= Len(entry.dn)
  BY DEF Fresh, entry
<1>4. CASE other \in FixedEntries
  <2>1. /\ Len(other.dn) <= 1 /\ Len(dn_key(other.dn)) # 2
        /\ other.uuid \in GeneratedUuids
    BY <1>4, FixedKeys
  <2>2. entry.uuid \notin GeneratedUuids
    BY <1>1, <1>2, UuidsApart
  <2>3. Len(entry.dn) = 2 /\ Len(dn_key(entry.dn)) = 2
    BY <1>1
  <2>4. dn_key(other.dn) # dn_key(entry.dn)
    BY <2>1, <2>3
  <2>5. Len(other.dn) <= Len(entry.dn)
    BY <2>1, <2>3
  <2>6. other.uuid # entry.uuid
    BY <2>1, <2>2
  <2>7. QED
    BY <2>4, <2>5, <2>6
<1>5. CASE other \in RenderedGroups
  <2>1. PICK i \in DOMAIN groups : other = GroupEntry(groups[i], Members(groups[i]))
    BY <1>5 DEF RenderedGroups, GroupsDone
  <2>2. /\ Len(other.dn) = 2 /\ dn_key(other.dn) = <<Fold[groups[i].groupname], "groups">>
        /\ other.uuid = groups[i].entry_uuid
    BY <2>1, GroupKeys
  <2>3. QED
    BY <1>1, <1>2, <2>2, UuidsApart
<1>6. CASE other \in RenderedUsers
  <2>1. PICK i \in UsersDone : other = UserEntry(users[i])
    BY <1>6 DEF RenderedUsers
  <2>2. i \in DOMAIN users /\ i # next
    BY <2>1, Items DEF UsersDone
  <2>3. /\ Len(other.dn) = 2 /\ dn_key(other.dn) = <<Fold[users[i].username], "people">>
        /\ other.uuid = users[i].entry_uuid
    BY <2>1, <2>2, UserKeys
  <2>4. QED
    BY <1>1, <1>2, <2>2, <2>3 DEF DistinctUsers
<1>7. QED
  BY <1>3, <1>4, <1>5, <1>6 DEF RenderedBinds

LEMMA FreshBind ==
  ASSUME TypeOK, Parsed, Listed, phase = "bind_entries", next \in DOMAIN bind_accounts
  PROVE  Fresh(BindEntry(bind_accounts[next]))
<1>. DEFINE entry == BindEntry(bind_accounts[next])
<1>1. /\ Len(entry.dn) = 2 /\ dn_key(entry.dn) = <<Fold[bind_accounts[next].username], "services">>
      /\ Len(dn_key(entry.dn)) = 2 /\ entry.uuid = bind_accounts[next].entry_uuid
  BY BindKeys
<1>. HIDE DEF entry
<1>2. DistinctUuids /\ DistinctBinds
  BY DEF Parsed, Parsing
<1>3. ToSet(entries) = FixedEntries \cup RenderedGroups \cup RenderedUsers \cup RenderedBinds
  BY DEF Listed, Rendering
<1>. SUFFICES ASSUME NEW other \in ToSet(entries)
              PROVE  /\ dn_key(other.dn) # dn_key(entry.dn) /\ other.uuid # entry.uuid
                     /\ Len(other.dn) <= Len(entry.dn)
  BY DEF Fresh, entry
<1>4. CASE other \in FixedEntries
  <2>1. /\ Len(other.dn) <= 1 /\ Len(dn_key(other.dn)) # 2
        /\ other.uuid \in GeneratedUuids
    BY <1>4, FixedKeys
  <2>2. entry.uuid \notin GeneratedUuids
    BY <1>1, <1>2, UuidsApart
  <2>3. Len(entry.dn) = 2 /\ Len(dn_key(entry.dn)) = 2
    BY <1>1
  <2>4. dn_key(other.dn) # dn_key(entry.dn)
    BY <2>1, <2>3
  <2>5. Len(other.dn) <= Len(entry.dn)
    BY <2>1, <2>3
  <2>6. other.uuid # entry.uuid
    BY <2>1, <2>2
  <2>7. QED
    BY <2>4, <2>5, <2>6
<1>5. CASE other \in RenderedGroups
  <2>1. PICK i \in DOMAIN groups : other = GroupEntry(groups[i], Members(groups[i]))
    BY <1>5 DEF RenderedGroups, GroupsDone
  <2>2. /\ Len(other.dn) = 2 /\ dn_key(other.dn) = <<Fold[groups[i].groupname], "groups">>
        /\ other.uuid = groups[i].entry_uuid
    BY <2>1, GroupKeys
  <2>3. QED
    BY <1>1, <1>2, <2>2, UuidsApart
<1>6. CASE other \in RenderedUsers
  <2>1. PICK i \in DOMAIN users : other = UserEntry(users[i])
    BY <1>6 DEF RenderedUsers, UsersDone
  <2>2. /\ Len(other.dn) = 2 /\ dn_key(other.dn) = <<Fold[users[i].username], "people">>
        /\ other.uuid = users[i].entry_uuid
    BY <2>1, UserKeys
  <2>3. QED
    BY <1>1, <1>2, <2>2, UuidsApart
<1>7. CASE other \in RenderedBinds
  <2>1. PICK i \in BindsDone : other = BindEntry(bind_accounts[i])
    BY <1>7 DEF RenderedBinds
  <2>2. i \in DOMAIN bind_accounts /\ i # next
    BY <2>1, Items DEF BindsDone
  <2>3. /\ Len(other.dn) = 2 /\ dn_key(other.dn) = <<Fold[bind_accounts[i].username], "services">>
        /\ other.uuid = bind_accounts[i].entry_uuid
    BY <2>1, <2>2, BindKeys
  <2>4. QED
    BY <1>1, <1>2, <2>2, <2>3 DEF DistinctBinds
<1>8. QED
  BY <1>3, <1>4, <1>5, <1>6, <1>7

\* The list starts with the base and its containers.
LEMMA BaseListed ==
  ASSUME TypeOK, Parsed, RenderBase
  PROVE  Listed'
<1>. DEFINE list == <<BaseEntry, Unit("people"), Unit("groups"), Unit("services")>>
<1>1. /\ phase = "base" /\ phase' = "group_entries" /\ UNCHANGED <<users, groups, bind_accounts, next>>
      /\ memberships' = [uuid \in ActiveUuids |-> {}] /\ entries' = list
  BY DEF RenderBase, definition
<1>2. next' = 1
  BY <1>1 DEF Parsed
<1>3. GroupsDone' = {} /\ UsersDone' = {} /\ BindsDone' = {}
  <2>1. \A i \in DOMAIN groups : i \in Nat \ {0}
    BY Items
  <2>2. QED
    BY <1>1, <1>2, <2>1 DEF GroupsDone, UsersDone, BindsDone
<1>4. DOMAIN list = 1..4 /\ ToSet(list) = {BaseEntry, Unit("people"), Unit("groups"), Unit("services")}
  BY DEF ToSet
<1>5. ToSet(list) = FixedEntries
  BY <1>4 DEF FixedEntries, Containers
<1>6. /\ Len(BaseEntry.dn) = 0 /\ dn_key(BaseEntry.dn) = << >>
      /\ \A name \in Containers : Len(Unit(name).dn) = 1 /\ dn_key(Unit(name).dn) = <<name>>
  <2>1. "people" \in Containers
    BY DEF Containers
  <2>2. QED
    BY <2>1, FixedRendered, InnerDN DEF Base
<1>7. /\ BaseUuid # container_uuid["people"] /\ BaseUuid # container_uuid["groups"]
      /\ BaseUuid # container_uuid["services"] /\ container_uuid["people"] # container_uuid["groups"]
      /\ container_uuid["people"] # container_uuid["services"]
      /\ container_uuid["groups"] # container_uuid["services"]
  <2>1. DOMAIN container_uuid = Containers /\ \A name \in Containers : container_uuid[name] # BaseUuid
    BY DirectoryAssumption
  <2>2. \A a, b \in Containers : container_uuid[a] = container_uuid[b] => a = b
    BY <2>1, DirectoryAssumption DEF IsInjective
  <2>3. QED
    BY <2>1, <2>2 DEF Containers
<1>8. /\ list[1] = BaseEntry /\ list[2] = Unit("people") /\ list[3] = Unit("groups")
      /\ list[4] = Unit("services")
  OBVIOUS
<1>. HIDE DEF list
<1>9. Unique(list)
  <2>1. /\ dn_key(list[1].dn) = << >> /\ dn_key(list[2].dn) = <<"people">>
        /\ dn_key(list[3].dn) = <<"groups">> /\ dn_key(list[4].dn) = <<"services">>
    BY <1>6, <1>8 DEF Containers
  <2>2. /\ list[1].uuid = BaseUuid /\ list[2].uuid = container_uuid["people"]
        /\ list[3].uuid = container_uuid["groups"] /\ list[4].uuid = container_uuid["services"]
    BY <1>8, FixedRendered DEF Containers
  <2>3. \A i \in DOMAIN list : i \in {1, 2, 3, 4}
    BY <1>4
  <2>. SUFFICES ASSUME NEW i \in {1, 2, 3, 4}, NEW j \in {1, 2, 3, 4}, i # j
                PROVE  dn_key(list[i].dn) # dn_key(list[j].dn) /\ list[i].uuid # list[j].uuid
    BY <2>3 DEF Unique
  <2>4. dn_key(list[i].dn) # dn_key(list[j].dn)
    BY <2>1
  <2>5. list[i].uuid # list[j].uuid
    BY <1>7, <2>2
  <2>6. QED
    BY <2>4, <2>5
<1>10. ParentsFirst(list)
  <2>1. /\ Len(list[1].dn) = 0 /\ Len(list[2].dn) = 1 /\ Len(list[3].dn) = 1 /\ Len(list[4].dn) = 1
    BY <1>6, <1>8 DEF Containers
  <2>2. QED
    BY <1>4, <2>1 DEF ParentsFirst
<1>11. RenderedGroups' = {} /\ RenderedUsers' = {} /\ RenderedBinds' = {}
  BY <1>3 DEF RenderedGroups, RenderedUsers, RenderedBinds
<1>12. memberships' = [uuid \in ActiveUuids |-> GroupsOf(uuid)]'
  <2>1. \A uuid : GroupsOf(uuid)' = {}
    BY <1>3 DEF GroupsOf
  <2>2. QED
    BY <1>1, <2>1, SameEntries
<1>13. FixedEntries' = FixedEntries
  BY DEF FixedEntries
<1>14. Unique(entries)' /\ ParentsFirst(entries)'
  BY <1>1, <1>9, <1>10 DEF Unique, ParentsFirst
<1>15. ToSet(entries)' = FixedEntries
  BY <1>1, <1>5 DEF ToSet
<1>16. QED
  BY <1>11, <1>12, <1>13, <1>14, <1>15 DEF Listed

\* One more entry, which is fresh.
LEMMA OneMore ==
  ASSUME TypeOK, NEW entry \in Entries, Fresh(entry), Unique(entries), ParentsFirst(entries),
         entries' = Append(entries, entry)
  PROVE  Unique(entries)' /\ ParentsFirst(entries)' /\ ToSet(entries)' = ToSet(entries) \cup {entry}
<1>1. entries \in Seq(Entries)
  BY DEF TypeOK
<1>2. Unique(Append(entries, entry)) /\ ParentsFirst(Append(entries, entry))
  BY <1>1, AddEntry DEF Fresh
<1>3. ToSet(Append(entries, entry)) = ToSet(entries) \cup {entry}
  BY <1>1, Appended
<1>4. QED
  BY <1>2, <1>3 DEF Unique, ParentsFirst, ToSet

LEMMA GroupListed ==
  ASSUME TypeOK, Parsed, Listed, RenderGroup
  PROVE  Listed'
<1>1. /\ phase = "group_entries" /\ phase' = "group_entries" /\ next \in DOMAIN groups /\ next' = next + 1
      /\ UNCHANGED <<users, groups, bind_accounts>>
  BY GroupLoop
<1>2. /\ memberships = [uuid \in ActiveUuids |-> GroupsOf(uuid)]
      /\ ToSet(entries) = FixedEntries \cup RenderedGroups \cup RenderedUsers \cup RenderedBinds
      /\ Unique(entries) /\ ParentsFirst(entries)
  BY <1>1 DEF Listed, Rendering
<1>3. GroupsDone' = GroupsDone \cup {next} /\ UsersDone' = {} /\ BindsDone' = {}
      /\ UsersDone = {} /\ BindsDone = {}
  <2>1. \A i \in DOMAIN groups : i \in Nat
    BY Items
  <2>2. QED
    BY <1>1, <2>1 DEF GroupsDone, UsersDone, BindsDone
<1>4. RenderedUsers' = {} /\ RenderedBinds' = {} /\ RenderedUsers = {} /\ RenderedBinds = {}
      /\ FixedEntries' = FixedEntries
  BY <1>3 DEF RenderedUsers, RenderedBinds, FixedEntries
<1>. DEFINE here == Members(groups[next])
            entry == GroupEntry(groups[next], here)
<1>5. RenderedGroups' = IF here = {} THEN RenderedGroups ELSE RenderedGroups \cup {entry}
  <2>1. RenderedGroups' = {GroupEntry(groups[i], Members(groups[i])) :
                             i \in {k \in GroupsDone \cup {next} : Members(groups[k]) # {}}}
    BY <1>1, <1>3, SameEntries DEF RenderedGroups
  <2>2. QED
    BY <2>1 DEF RenderedGroups
<1>6. \A uuid \in ActiveUuids :
        GroupsOf(uuid)' = IF uuid \in here THEN GroupsOf(uuid) \cup {GroupDN(groups[next])} ELSE GroupsOf(uuid)
  <2>1. \A uuid : GroupsOf(uuid)' = {GroupDN(groups[i]) :
                                       i \in {k \in GroupsDone \cup {next} : uuid \in ToSet(groups[k].members)}}
    BY <1>1, <1>3 DEF GroupsOf
  <2>2. \A uuid \in ActiveUuids : uuid \in here <=> uuid \in ToSet(groups[next].members)
    BY DEF Members
  <2>3. QED
    BY <2>1, <2>2 DEF GroupsOf
<1>7. entry \in Entries /\ Fresh(entry)
  BY <1>1, GroupKeys, FreshGroup
<1>. HIDE DEF here, entry
<1>8. CASE here = {} /\ UNCHANGED <<entries, memberships>>
  <2>1. memberships' = [uuid \in ActiveUuids |-> GroupsOf(uuid)]'
    <3>1. \A uuid \in ActiveUuids : GroupsOf(uuid)' = GroupsOf(uuid)
      BY <1>6, <1>8
    <3>2. QED
      BY <1>1, <1>2, <1>8, <3>1, SameEntries
  <2>2. Unique(entries)' /\ ParentsFirst(entries)' /\ ToSet(entries)' = ToSet(entries)
    BY <1>2, <1>8 DEF Unique, ParentsFirst
  <2>3. QED
    BY <1>2, <1>4, <1>5, <1>8, <2>1, <2>2 DEF Listed
<1>9. CASE /\ here # {} /\ entries' = Append(entries, entry)
           /\ memberships' = [uuid \in ActiveUuids |->
                IF uuid \in here THEN memberships[uuid] \cup {GroupDN(groups[next])} ELSE memberships[uuid]]
  <2>1. memberships' = [uuid \in ActiveUuids |-> GroupsOf(uuid)]'
    <3>1. \A uuid \in ActiveUuids : GroupsOf(uuid)' =
            IF uuid \in here THEN memberships[uuid] \cup {GroupDN(groups[next])} ELSE memberships[uuid]
      BY <1>2, <1>6
    <3>2. QED
      BY <1>1, <1>9, <3>1, SameEntries
  <2>2. Unique(entries)' /\ ParentsFirst(entries)' /\ ToSet(entries)' = ToSet(entries) \cup {entry}
    BY <1>2, <1>7, <1>9, OneMore
  <2>3. QED
    BY <1>2, <1>4, <1>5, <1>9, <2>1, <2>2 DEF Listed
<1>10. QED
  BY <1>8, <1>9, GroupLoop DEF here, entry

LEMMA UserListed ==
  ASSUME TypeOK, Parsed, Listed, RenderUser
  PROVE  Listed'
<1>1. /\ phase = "user_entries" /\ phase' = "user_entries" /\ next \in DOMAIN users /\ next' = next + 1
      /\ UNCHANGED <<users, groups, bind_accounts, memberships>>
  BY UserLoop
<1>2. /\ memberships = [uuid \in ActiveUuids |-> GroupsOf(uuid)]
      /\ ToSet(entries) = FixedEntries \cup RenderedGroups \cup RenderedUsers \cup RenderedBinds
      /\ Unique(entries) /\ ParentsFirst(entries)
  BY <1>1 DEF Listed, Rendering
<1>3. GroupsDone' = GroupsDone /\ UsersDone' = UsersDone \cup {next} /\ BindsDone' = {} /\ BindsDone = {}
  <2>1. \A i \in DOMAIN users : i \in Nat
    BY Items
  <2>2. QED
    BY <1>1, <2>1 DEF GroupsDone, UsersDone, BindsDone
<1>4. RenderedBinds' = {} /\ RenderedBinds = {} /\ FixedEntries' = FixedEntries
  BY <1>3 DEF RenderedBinds, FixedEntries
<1>5. RenderedGroups' = RenderedGroups
  BY <1>1, <1>3, SameEntries DEF RenderedGroups
<1>6. memberships' = [uuid \in ActiveUuids |-> GroupsOf(uuid)]'
  <2>1. \A uuid : GroupsOf(uuid)' = GroupsOf(uuid)
    BY <1>1, <1>3 DEF GroupsOf
  <2>2. QED
    BY <1>1, <1>2, <2>1, SameEntries
<1>. DEFINE entry == UserEntry(users[next])
<1>7. RenderedUsers' = IF Published(users[next]) THEN RenderedUsers \cup {entry} ELSE RenderedUsers
  <2>1. \A i : UserEntry(users[i])' = UserEntry(users[i])
    BY <1>1 DEF UserEntry
  <2>2. RenderedUsers' = {UserEntry(users[i]) : i \in {k \in UsersDone \cup {next} : Published(users[k])}}
    BY <1>1, <1>3, <2>1 DEF RenderedUsers, Published
  <2>3. QED
    BY <2>2 DEF RenderedUsers
<1>8. Published(users[next]) => entry \in Entries /\ Fresh(entry)
  <2>1. Published(users[next]) => memberships[users[next].entry_uuid] \in SUBSET DNs
    BY <1>1, MembershipTypes, ActiveItem
  <2>2. QED
    BY <1>1, <2>1, UserRendered, FreshUser
<1>. HIDE DEF entry
<1>9. CASE ~Published(users[next]) /\ UNCHANGED entries
  <2>1. Unique(entries)' /\ ParentsFirst(entries)' /\ ToSet(entries)' = ToSet(entries)
    BY <1>2, <1>9 DEF Unique, ParentsFirst
  <2>2. QED
    BY <1>2, <1>4, <1>5, <1>6, <1>7, <1>9, <2>1 DEF Listed
<1>10. CASE Published(users[next]) /\ entries' = Append(entries, entry)
  <2>1. Unique(entries)' /\ ParentsFirst(entries)' /\ ToSet(entries)' = ToSet(entries) \cup {entry}
    BY <1>2, <1>8, <1>10, OneMore
  <2>2. QED
    BY <1>2, <1>4, <1>5, <1>6, <1>7, <1>10, <2>1 DEF Listed
<1>11. QED
  BY <1>9, <1>10, UserLoop DEF entry

LEMMA BindListed ==
  ASSUME TypeOK, Parsed, Listed, RenderBindAccount
  PROVE  Listed'
<1>1. /\ phase = "bind_entries" /\ phase' = "bind_entries" /\ next \in DOMAIN bind_accounts
      /\ next' = next + 1 /\ UNCHANGED <<users, groups, bind_accounts, memberships>>
  BY BindLoop
<1>2. /\ memberships = [uuid \in ActiveUuids |-> GroupsOf(uuid)]
      /\ ToSet(entries) = FixedEntries \cup RenderedGroups \cup RenderedUsers \cup RenderedBinds
      /\ Unique(entries) /\ ParentsFirst(entries)
  BY <1>1 DEF Listed, Rendering
<1>3. GroupsDone' = GroupsDone /\ UsersDone' = UsersDone /\ BindsDone' = BindsDone \cup {next}
  <2>1. \A i \in DOMAIN bind_accounts : i \in Nat
    BY Items
  <2>2. QED
    BY <1>1, <2>1 DEF GroupsDone, UsersDone, BindsDone
<1>4. RenderedGroups' = RenderedGroups /\ FixedEntries' = FixedEntries
  BY <1>1, <1>3, SameEntries DEF RenderedGroups, FixedEntries
<1>5. RenderedUsers' = RenderedUsers
  BY <1>1, <1>3 DEF RenderedUsers, UserEntry, Published
<1>6. memberships' = [uuid \in ActiveUuids |-> GroupsOf(uuid)]'
  <2>1. \A uuid : GroupsOf(uuid)' = GroupsOf(uuid)
    BY <1>1, <1>3 DEF GroupsOf
  <2>2. QED
    BY <1>1, <1>2, <2>1, SameEntries
<1>7. RenderedBinds' = RenderedBinds \cup {BindEntry(bind_accounts[next])}
  BY <1>1, <1>3 DEF RenderedBinds
<1>8. Unique(entries)' /\ ParentsFirst(entries)'
      /\ ToSet(entries)' = ToSet(entries) \cup {BindEntry(bind_accounts[next])}
  <2>1. BindEntry(bind_accounts[next]) \in Entries /\ Fresh(BindEntry(bind_accounts[next]))
    BY <1>1, BindKeys, FreshBind
  <2>2. entries' = Append(entries, BindEntry(bind_accounts[next]))
    BY BindLoop
  <2>3. QED
    BY <1>2, <2>1, <2>2, OneMore
<1>9. QED
  BY <1>2, <1>4, <1>5, <1>6, <1>7, <1>8 DEF Listed

LEMMA ListedStep == TypeOK /\ Parsed /\ Listed /\ [Next]_vars => Listed'
<1>. SUFFICES ASSUME TypeOK, Parsed, Listed, [Next]_vars PROVE Listed'
  OBVIOUS
<1>1. CASE UNCHANGED vars
  <2>1. UNCHANGED <<phase, users, groups, bind_accounts, entries, memberships, next>>
    BY <1>1 DEF vars, definition, rendering
  <2>2. UNCHANGED <<GroupsDone, UsersDone, BindsDone>>
    BY <2>1 DEF GroupsDone, UsersDone, BindsDone
  <2>3. CASE phase \in (Rendering \ {"base"}) \cup Building \cup {"built"}
    BY <2>1, <2>2, <2>3, ListedStays
  <2>4. CASE phase \notin (Rendering \ {"base"}) \cup Building \cup {"built"}
    BY <2>1, <2>4 DEF Listed
  <2>5. QED
    BY <2>3, <2>4
<1>2. CASE Parse \/ CredentialUnreadable
  <2>1. phase' \in Parsing \cup {"base", "refused"}
    BY <1>2 DEF Parse, FormatError, ParseUser, ParseGroup, ParseBindAccount, EndOfList, CompareLists,
       CredentialUnreadable, Parsing
  <2>2. QED
    BY <2>1 DEF Listed, Parsing, Rendering, Building
<1>3. QED
  BY <1>1, <1>2, BaseListed, GroupListed, UserListed, BindListed, LoopEnds, FilesListed
  DEF Next, Render, Finished

(***************************************************************************)
(* What is written and imported.                                           *)
(***************************************************************************)

\* After the loops every item has been rendered, and nothing else.
LEMMA Complete ==
  ASSUME TypeOK, Listed, phase \in {"write"} \cup Building \cup {"built"}
  PROVE  /\ \A e \in ToSet(entries) :
              \/ e \in FixedEntries
              \/ \E i \in DOMAIN groups : Members(groups[i]) # {} /\ e = GroupEntry(groups[i], Members(groups[i]))
              \/ \E i \in DOMAIN users : users[i].active /\ e = UserEntry(users[i])
              \/ \E i \in DOMAIN bind_accounts : e = BindEntry(bind_accounts[i])
         /\ FixedEntries \subseteq ToSet(entries)
         /\ \A i \in DOMAIN groups : Members(groups[i]) # {} => GroupEntry(groups[i], Members(groups[i])) \in ToSet(entries)
         /\ \A i \in DOMAIN users : users[i].active => UserEntry(users[i]) \in ToSet(entries)
         /\ \A uuid \in ActiveUuids : memberships[uuid] =
              {GroupDN(groups[i]) : i \in {k \in DOMAIN groups : uuid \in ToSet(groups[k].members)}}
         /\ Unique(entries) /\ ParentsFirst(entries)
<1>1. GroupsDone = DOMAIN groups /\ UsersDone = DOMAIN users /\ BindsDone = DOMAIN bind_accounts
  BY DEF GroupsDone, UsersDone, BindsDone, Building
<1>2. /\ memberships = [uuid \in ActiveUuids |-> GroupsOf(uuid)]
      /\ ToSet(entries) = FixedEntries \cup RenderedGroups \cup RenderedUsers \cup RenderedBinds
      /\ Unique(entries) /\ ParentsFirst(entries)
  BY DEF Listed, Rendering
<1>3. \A uuid \in ActiveUuids : memberships[uuid] =
        {GroupDN(groups[i]) : i \in {k \in DOMAIN groups : uuid \in ToSet(groups[k].members)}}
  BY <1>1, <1>2 DEF GroupsOf
<1>4. \A e : e \in RenderedGroups <=>
        \E i \in DOMAIN groups : Members(groups[i]) # {} /\ e = GroupEntry(groups[i], Members(groups[i]))
  BY <1>1 DEF RenderedGroups
<1>5. \A e : e \in RenderedUsers <=> \E i \in DOMAIN users : users[i].active /\ e = UserEntry(users[i])
  BY <1>1 DEF RenderedUsers, Published
<1>6. \A e : e \in RenderedBinds <=> \E i \in DOMAIN bind_accounts : e = BindEntry(bind_accounts[i])
  BY <1>1 DEF RenderedBinds
<1>7. QED
  BY <1>2, <1>3, <1>4, <1>5, <1>6

\* What the generator writes passes its own check and the import.
LEMMA Servable ==
  ASSUME TypeOK, Listed, phase \in {"write"} \cup Building
  PROVE  validate_entries(entries) /\ Importable(entries)
<1>1. Unique(entries) /\ FixedEntries \subseteq ToSet(entries)
  BY Complete
<1>2. \A name \in Containers : \E other \in ToSet(entries) : dn_key(other.dn) = <<name>>
  BY <1>1, FixedRendered, InnerDN DEF FixedEntries
<1>3. BaseEntry \in ToSet(entries) /\ dn_key(BaseEntry.dn) = Base
  BY <1>1, FixedRendered, InnerDN DEF FixedEntries, Containers
<1>4. ASSUME NEW e \in ToSet(entries)
      PROVE  /\ dn_key(e.dn) = Base \/ \E other \in ToSet(entries) : dn_key(other.dn) = Tail(dn_key(e.dn))
             /\ e.class = "groupOfNames" => e.member # {}
  <2>1. CASE e \in FixedEntries
    <3>1. dn_key(e.dn) = Base \/ Tail(dn_key(e.dn)) = Base
      <4>1. CASE e = BaseEntry
        BY <1>3, <4>1
      <4>2. ASSUME NEW name \in Containers, e = Unit(name)
            PROVE  Tail(dn_key(e.dn)) = Base
        BY <4>2, FixedRendered, InnerDN
      <4>3. QED
        BY <2>1, <4>1, <4>2 DEF FixedEntries
    <3>2. QED
      BY <1>3, <2>1, <3>1, FixedKeys
  <2>2. ASSUME NEW i \in DOMAIN groups, Members(groups[i]) # {},
               e = GroupEntry(groups[i], Members(groups[i]))
        PROVE  /\ \E other \in ToSet(entries) : dn_key(other.dn) = Tail(dn_key(e.dn))
               /\ e.member # {}
    <3>1. e.dn = <<groups[i].groupname, "groups">>
          /\ e.member = {PersonDN(UserOf(uuid)) : uuid \in Members(groups[i])}
      BY <2>2, GroupKeys DEF GroupDN
    <3>2. groups[i].groupname \in Strings /\ "groups" \in Containers
      BY Items DEF Containers
    <3>3. Tail(dn_key(e.dn)) = <<"groups">>
      BY <3>1, <3>2, LeafDN
    <3>4. QED
      BY <1>2, <2>2, <3>1, <3>2, <3>3
  <2>3. ASSUME NEW i \in DOMAIN users, e = UserEntry(users[i])
        PROVE  /\ \E other \in ToSet(entries) : dn_key(other.dn) = Tail(dn_key(e.dn))
               /\ e.class # "groupOfNames"
    <3>1. e.dn = <<users[i].username, "people">> /\ e.class = "inetOrgPerson"
      BY <2>3, UserKeys DEF PersonDN
    <3>2. users[i].username \in Strings /\ "people" \in Containers
      BY Items DEF Containers
    <3>3. Tail(dn_key(e.dn)) = <<"people">>
      BY <3>1, <3>2, LeafDN
    <3>4. QED
      BY <1>2, <3>1, <3>2, <3>3
  <2>4. ASSUME NEW i \in DOMAIN bind_accounts, e = BindEntry(bind_accounts[i])
        PROVE  /\ \E other \in ToSet(entries) : dn_key(other.dn) = Tail(dn_key(e.dn))
               /\ e.class # "groupOfNames"
    <3>1. e.dn = <<bind_accounts[i].username, "services">> /\ e.class = "organizationalRole"
      BY <2>4, BindKeys
    <3>2. bind_accounts[i].username \in Strings /\ "services" \in Containers
      BY Items DEF Containers
    <3>3. Tail(dn_key(e.dn)) = <<"services">>
      BY <3>1, <3>2, LeafDN
    <3>4. QED
      BY <1>2, <3>1, <3>2, <3>3
  <2>5. QED
    BY <2>1, <2>2, <2>3, <2>4, Complete
<1>5. \A i, j \in DOMAIN entries : i # j => entries[i].dn # entries[j].dn /\ entries[i].uuid # entries[j].uuid
  BY <1>1 DEF Unique
<1>6. validate_entries(entries)
  BY <1>3, <1>4, <1>5 DEF validate_entries
<1>7. Importable(entries)
  BY <1>1, <1>4 DEF Importable, Unique
<1>8. QED
  BY <1>6, <1>7

\* A user is listed by a group exactly if the group is listed by the user.
LEMMA Reciprocal ==
  ASSUME TypeOK, Parsed, Listed, phase \in Building, database = entries
  PROVE  GroupMemberships = UserMemberships
<1>1. DistinctUsers
  BY DEF Parsed
<1>2. ASSUME NEW e \in ToSet(entries), NEW dn \in e.member
      PROVE  \E other \in ToSet(entries) : other.dn = dn /\ e.dn \in other.memberOf
  <2>1. PICK j \in DOMAIN groups : Members(groups[j]) # {} /\ e = GroupEntry(groups[j], Members(groups[j]))
    BY <1>2, Complete, FixedKeys, UserKeys, BindKeys
  <2>2. PICK uuid \in Members(groups[j]) : dn = PersonDN(UserOf(uuid))
    BY <1>2, <2>1, GroupKeys
  <2>3. uuid \in ActiveUuids /\ uuid \in ToSet(groups[j].members)
    BY <2>2 DEF Members
  <2>4. PICK i \in DOMAIN users : users[i].entry_uuid = uuid /\ users[i].active
    BY <2>3, ActiveUser
  <2>5. dn = PersonDN(users[i])
    BY <1>1, <2>2, <2>4, TheUser
  <2>6. UserEntry(users[i]) \in ToSet(entries) /\ memberships[uuid] =
          {GroupDN(groups[k]) : k \in {m \in DOMAIN groups : uuid \in ToSet(groups[m].members)}}
    BY <2>3, <2>4, Complete
  <2>7. GroupDN(groups[j]) \in memberships[uuid]
    BY <2>3, <2>6
  <2>8. QED
    BY <2>1, <2>4, <2>5, <2>6, <2>7, GroupKeys, UserKeys
<1>3. ASSUME NEW e \in ToSet(entries), NEW dn \in e.memberOf
      PROVE  \E other \in ToSet(entries) : other.dn = dn /\ e.dn \in other.member
  <2>1. PICK i \in DOMAIN users : users[i].active /\ e = UserEntry(users[i])
    BY <1>3, Complete, FixedKeys, GroupKeys, BindKeys
  <2>. DEFINE uuid == users[i].entry_uuid
  <2>2. uuid \in ActiveUuids
    BY <2>1, ActiveItem DEF Published
  <2>3. dn \in memberships[uuid]
    BY <1>3, <2>1, UserKeys
  <2>4. PICK j \in DOMAIN groups : uuid \in ToSet(groups[j].members) /\ dn = GroupDN(groups[j])
    BY <2>2, <2>3, Complete
  <2>5. uuid \in Members(groups[j])
    BY <2>2, <2>4 DEF Members
  <2>6. /\ GroupEntry(groups[j], Members(groups[j])) \in ToSet(entries)
        /\ GroupEntry(groups[j], Members(groups[j])).dn = dn
        /\ PersonDN(UserOf(uuid)) \in GroupEntry(groups[j], Members(groups[j])).member
    BY <2>4, <2>5, Complete, GroupKeys
  <2>7. e.dn = PersonDN(UserOf(uuid))
    BY <1>1, <2>1, TheUser, UserKeys
  <2>8. QED
    BY <2>6, <2>7
<1>4. GroupMemberships \subseteq UserMemberships
  <2>. SUFFICES ASSUME NEW e \in ToSet(entries), NEW dn \in e.member
                PROVE  <<dn_key(dn), dn_key(e.dn)>> \in UserMemberships
    BY DEF GroupMemberships
  <2>1. PICK other \in ToSet(entries) : other.dn = dn /\ e.dn \in other.memberOf
    BY <1>2
  <2>2. QED
    BY <2>1 DEF UserMemberships
<1>5. UserMemberships \subseteq GroupMemberships
  <2>. SUFFICES ASSUME NEW e \in ToSet(entries), NEW dn \in e.memberOf
                PROVE  <<dn_key(e.dn), dn_key(dn)>> \in GroupMemberships
    BY DEF UserMemberships
  <2>1. PICK other \in ToSet(entries) : other.dn = dn /\ e.dn \in other.member
    BY <1>3
  <2>2. QED
    BY <2>1 DEF GroupMemberships
<1>6. QED
  BY <1>4, <1>5

LEMMA StoredStep ==
  TypeOK /\ Parsed /\ Listed /\ Stored /\ [Next]_vars => Stored'
<1>. SUFFICES ASSUME TypeOK, Parsed, Listed, Stored, [Next]_vars PROVE Stored'
  OBVIOUS
<1>1. CASE Parse \/ Render
  <2>1. phase \in Parsing \cup Rendering /\ phase' \in Parsing \cup Rendering \cup {"refused", "failed"}
        /\ UNCHANGED database
    BY <1>1 DEF Parse, FormatError, ParseUser, ParseGroup, ParseBindAccount, EndOfList, CompareLists,
       Render, RenderBase, RenderGroup, RenderUser, RenderBindAccount, CredentialUnreadable, EndOfLoop,
       Parsing, Rendering, Output
  <2>2. QED
    BY <2>1 DEF Stored, Parsing, Rendering, Building
<1>2. CASE WriteDirectory
  <2>1. /\ phase = "write" /\ phase' \in {"validate", "invalid"} /\ ldif' = ByDepth(entries)
        /\ UNCHANGED <<entries, database>>
    BY <1>2 DEF WriteDirectory, rendering
  <2>2. ByDepth(entries) = entries
    BY <2>1, SortKeeps DEF Listed, Rendering, TypeOK
  <2>3. QED
    BY <2>1, <2>2 DEF Stored, Building
<1>3. CASE ValidateInputs
  BY <1>3 DEF ValidateInputs, rendering, Stored, Building
<1>4. CASE import_directory_data
  BY <1>4 DEF import_directory_data, rendering, Stored, Building
<1>5. CASE verify_built_database
  <2>1. /\ phase = "verify" /\ phase' \in {"built", "rejected"} /\ UNCHANGED <<entries, ldif, database>>
    BY <1>5 DEF verify_built_database, rendering
  <2>2. phase' = "built"
    <3>1. database = entries
      BY <2>1 DEF Stored
    <3>2. phase \in Building
      BY <2>1 DEF Building
    <3>3. validate_entries(database) /\ GroupMemberships = UserMemberships
      BY <3>1, <3>2, Servable, Reciprocal
    <3>4. QED
      BY <1>5, <3>3 DEF verify_built_database
  <2>3. QED
    BY <2>1, <2>2 DEF Stored, Building
<1>6. CASE UNCHANGED vars
  BY <1>6 DEF vars, rendering, Stored
<1>7. QED
  BY <1>1, <1>2, <1>3, <1>4, <1>5, <1>6 DEF Next, Build, Finished

LEMMA ServableStep ==
  TypeOK /\ Parsed /\ Listed /\ Stored /\ AcceptedIsServable /\ [Next]_vars => AcceptedIsServable'
<1>. SUFFICES ASSUME TypeOK, Parsed, Listed, Stored, AcceptedIsServable, [Next]_vars
              PROVE  AcceptedIsServable'
  OBVIOUS
<1>1. CASE Parse
  BY <1>1 DEF Parse, FormatError, ParseUser, ParseGroup, ParseBindAccount, EndOfList, CompareLists,
     AcceptedIsServable
<1>2. CASE RenderUser
  BY <1>2, UserLoop DEF AcceptedIsServable
<1>3. CASE Render /\ ~RenderUser
  BY <1>3 DEF Render, RenderBase, RenderGroup, RenderBindAccount, CredentialUnreadable, EndOfLoop,
     AcceptedIsServable
<1>4. CASE WriteDirectory
  <2>1. phase = "write" /\ ldif' = ByDepth(entries)
    BY <1>4 DEF WriteDirectory
  <2>2. ByDepth(entries) = entries /\ validate_entries(entries)
    BY <2>1, SortKeeps, Servable DEF Listed, Rendering, TypeOK
  <2>3. phase' = "validate"
    BY <1>4, <2>1, <2>2 DEF WriteDirectory
  <2>4. QED
    BY <2>3 DEF AcceptedIsServable
<1>5. CASE ValidateInputs \/ import_directory_data
  <2>1. phase \in Building /\ ldif = entries
    BY <1>5 DEF ValidateInputs, import_directory_data, Building, Stored
  <2>2. validate_entries(ldif) /\ Importable(ldif)
    BY <2>1, Servable
  <2>3. phase' \in {"import", "verify"}
    BY <1>5, <2>2 DEF ValidateInputs, import_directory_data
  <2>4. QED
    BY <2>3 DEF AcceptedIsServable
<1>6. CASE verify_built_database
  <2>1. phase \in Building /\ database = entries
    BY <1>6 DEF verify_built_database, Building, Stored
  <2>2. validate_entries(database) /\ GroupMemberships = UserMemberships
    BY <2>1, Servable, Reciprocal
  <2>3. phase' = "built"
    BY <1>6, <2>2 DEF verify_built_database
  <2>4. QED
    BY <2>3 DEF AcceptedIsServable
<1>7. CASE UNCHANGED vars
  BY <1>7 DEF vars, AcceptedIsServable
<1>8. QED
  BY <1>1, <1>2, <1>3, <1>4, <1>5, <1>6, <1>7 DEF Next, Build, Finished

(***************************************************************************)
(* The theorems.                                                           *)
(***************************************************************************)

LEMMA InitInv == Init => Inv
<1>. SUFFICES ASSUME Init PROVE Inv
  OBVIOUS
<1>1. TypeOK
  <2>1. 1 \in 1..MaxItems + 1
    BY DirectoryAssumption
  <2>2. QED
    BY <2>1 DEF Init, TypeOK, Parsing
<1>2. Parsed
  <2>1. 0 \in 0..MaxItems
    BY DirectoryAssumption
  <2>2. QED
    BY <2>1 DEF Init, Parsed, DistinctUsers, DistinctGroups, DistinctBinds, ToSet, Parsing
<1>3. Listed /\ Stored /\ AcceptedIsServable
  BY DEF Init, Listed, Stored, AcceptedIsServable, Rendering, Building
<1>4. QED
  BY <1>1, <1>2, <1>3 DEF Inv

\* From the first list item to the database, the entries are those of the items
\* read so far, no two of them clash, and the file and the database hold them.
THEOREM Invariance == Spec => []Inv
<1>1. Inv /\ [Next]_vars => Inv'
  BY TypeStep, ParsedStep, ListedStep, StoredStep, ServableStep DEF Inv
<1>2. QED
  BY InitInv, <1>1, PTL DEF Spec

\* What the parser accepts is rendered, passes the checks of the generator and
\* of the container, and is served, for every definition.
THEOREM AcceptedIsServed == Spec => []AcceptedIsServable
<1>1. Inv => AcceptedIsServable
  BY DEF Inv
<1>2. QED
  BY <1>1, Invariance, PTL

\* A search for a uid, in any capitalization, finds one account at most.
THEOREM OneAccount == Spec => []LoginsUnambiguous
<1>1. Inv => LoginsUnambiguous
  <2>. SUFFICES ASSUME Inv, NEW e \in ToSet(database), NEW f \in ToSet(database), e # f,
                       {e.class, f.class} \subseteq {"inetOrgPerson", "organizationalRole"}
                PROVE  Fold[e.dn[1]] # Fold[f.dn[1]]
    BY DEF LoginsUnambiguous
  <2>1. phase \in {"verify", "built"} /\ database = entries
    BY DEF Inv, Stored, ToSet
  <2>2. TypeOK /\ Parsed /\ Listed
    BY DEF Inv
  <2>3. DistinctUsers /\ DistinctBinds /\ DistinctNames
    BY <2>1, <2>2 DEF Parsed, Parsing
  <2>4. ASSUME NEW other \in ToSet(entries), other.class \in {"inetOrgPerson", "organizationalRole"}
        PROVE  \/ \E i \in DOMAIN users : other = UserEntry(users[i]) /\ other.dn[1] = users[i].username
               \/ \E i \in DOMAIN bind_accounts :
                    other = BindEntry(bind_accounts[i]) /\ other.dn[1] = bind_accounts[i].username
    <3>1. phase \in {"write"} \cup Building \cup {"built"}
      BY <2>1 DEF Building
    <3>2. \/ \E i \in DOMAIN users : other = UserEntry(users[i])
          \/ \E i \in DOMAIN bind_accounts : other = BindEntry(bind_accounts[i])
      BY <2>2, <2>4, <3>1, Complete, FixedKeys, GroupKeys
    <3>3. \A i \in DOMAIN users : UserEntry(users[i]).dn[1] = users[i].username
      BY <2>2, UserKeys DEF PersonDN
    <3>4. \A i \in DOMAIN bind_accounts : BindEntry(bind_accounts[i]).dn[1] = bind_accounts[i].username
      BY <2>2, BindKeys
    <3>5. QED
      BY <3>2, <3>3, <3>4
  <2>5. \A i \in DOMAIN users, j \in DOMAIN bind_accounts :
          Fold[users[i].username] # Fold[bind_accounts[j].username]
    BY <2>2, <2>3, Items DEF DistinctNames, NamesOf
  <2>6. /\ \A i, j \in DOMAIN users : i # j => Fold[users[i].username] # Fold[users[j].username]
        /\ \A i, j \in DOMAIN bind_accounts :
             i # j => Fold[bind_accounts[i].username] # Fold[bind_accounts[j].username]
    BY <2>3 DEF DistinctUsers, DistinctBinds
  <2>7. e \in ToSet(entries) /\ f \in ToSet(entries)
        /\ e.class \in {"inetOrgPerson", "organizationalRole"}
        /\ f.class \in {"inetOrgPerson", "organizationalRole"}
    BY <2>1
  <2>8. CASE \E i \in DOMAIN users : e = UserEntry(users[i]) /\ e.dn[1] = users[i].username
    BY <2>4, <2>5, <2>6, <2>7, <2>8
  <2>9. CASE \E i \in DOMAIN bind_accounts :
               e = BindEntry(bind_accounts[i]) /\ e.dn[1] = bind_accounts[i].username
    BY <2>4, <2>5, <2>6, <2>7, <2>9
  <2>10. QED
    BY <2>4, <2>7, <2>8, <2>9
<1>2. QED
  BY <1>1, Invariance, PTL

\* The users of a database are the active ones, and so are the members of its
\* groups.
THEOREM ActiveServed == Spec => []OnlyActiveServed
<1>1. Inv => OnlyActiveServed
  <2>. SUFFICES ASSUME Inv, phase = "built"
                PROVE  LET People == {PersonDN(u) : u \in {v \in ToSet(users) : v.active}}
                       IN  /\ {e.dn : e \in {f \in ToSet(database) : f.class = "inetOrgPerson"}} = People
                           /\ \A e \in ToSet(database) : e.member \subseteq People
    BY DEF OnlyActiveServed
  <2>. DEFINE People == {PersonDN(u) : u \in {v \in ToSet(users) : v.active}}
  <2>1. database = entries /\ TypeOK /\ Parsed /\ Listed /\ DistinctUsers
    BY DEF Inv, Stored, Parsed
  <2>2. \A i \in DOMAIN users : users[i].active => PersonDN(users[i]) \in People
    BY <2>1, Items
  <2>3. ASSUME NEW e \in ToSet(entries), e.class = "inetOrgPerson"
        PROVE  e.dn \in People
    <3>1. PICK i \in DOMAIN users : users[i].active /\ e = UserEntry(users[i])
      BY <2>1, <2>3, Complete, FixedKeys, GroupKeys, BindKeys
    <3>2. QED
      BY <2>1, <2>2, <3>1, UserKeys
  <2>4. ASSUME NEW u \in ToSet(users), u.active
        PROVE  \E e \in ToSet(entries) : e.class = "inetOrgPerson" /\ e.dn = PersonDN(u)
    <3>1. PICK i \in DOMAIN users : u = users[i]
      BY DEF ToSet
    <3>2. UserEntry(users[i]) \in ToSet(entries)
      BY <2>1, <2>4, <3>1, Complete
    <3>3. QED
      BY <2>1, <3>1, <3>2, UserKeys
  <2>5. ASSUME NEW e \in ToSet(entries), NEW dn \in e.member
        PROVE  dn \in People
    <3>1. PICK j \in DOMAIN groups : e = GroupEntry(groups[j], Members(groups[j]))
      BY <2>1, <2>5, Complete, FixedKeys, UserKeys, BindKeys
    <3>2. PICK uuid \in Members(groups[j]) : dn = PersonDN(UserOf(uuid))
      BY <2>1, <2>5, <3>1, GroupKeys
    <3>3. PICK i \in DOMAIN users : users[i].entry_uuid = uuid /\ users[i].active
      BY <2>1, <3>2, ActiveUser DEF Members
    <3>4. UserOf(uuid) = users[i]
      BY <2>1, <3>3, TheUser
    <3>5. QED
      BY <2>2, <3>2, <3>3, <3>4
  <2>6. {e.dn : e \in {f \in ToSet(database) : f.class = "inetOrgPerson"}} = People
    BY <2>1, <2>3, <2>4
  <2>7. \A e \in ToSet(database) : e.member \subseteq People
    BY <2>1, <2>5
  <2>8. QED
    BY <2>6, <2>7
<1>2. QED
  BY <1>1, Invariance, PTL

\* The members of a group are the users that its references name.
LEMMA Written ==
  ASSUME TypeOK, Parsed, NEW i \in DOMAIN users, NEW j \in DOMAIN groups
  PROVE  /\ users[i].entry_uuid \in ToSet(groups[j].members) <=>
              \E reference \in groups[j].references : Names(reference, users[i])
         /\ users[i].entry_uuid \in ActiveUuids <=> users[i].active
<1>1. DistinctUsers /\ ToSet(groups[j].members) = UNION {candidates(reference) : reference \in groups[j].references}
  BY Items DEF Parsed
<1>2. \A k \in DOMAIN users : users[k].entry_uuid = users[i].entry_uuid => k = i
  BY <1>1 DEF DistinctUsers
<1>3. \A reference : users[i].entry_uuid \in candidates(reference) <=> Names(reference, users[i])
  BY <1>2 DEF candidates, Names, ToSet
<1>4. users[i].entry_uuid \in ActiveUuids <=> users[i].active
  BY <1>2 DEF ActiveUuids, ToSet, Published
<1>5. QED
  BY <1>1, <1>3, <1>4

\* Seen from the group and from the user, the memberships of a database are
\* those that the definition states for active users, in whichever form and
\* capitalization it names them.
THEOREM MembershipsKept == Spec => []MembershipsAsWritten
<1>1. Inv => MembershipsAsWritten
  <2>. SUFFICES ASSUME Inv, phase = "built", NEW u \in ToSet(users), NEW g \in ToSet(groups)
                PROVE  LET stated == u.active /\ \E reference \in g.references : Names(reference, u)
                       IN  /\ stated <=> \E e \in ToSet(database) : e.dn = GroupDN(g) /\ PersonDN(u) \in e.member
                           /\ stated <=> \E e \in ToSet(database) : e.dn = PersonDN(u) /\ GroupDN(g) \in e.memberOf
    BY Zenon DEF MembershipsAsWritten
  <2>a. PICK i \in DOMAIN users : users[i] = u
    BY DEF ToSet
  <2>b. PICK j \in DOMAIN groups : groups[j] = g
    BY DEF ToSet
  <2>. DEFINE uuid == users[i].entry_uuid
              written == users[i].active /\ \E reference \in groups[j].references : Names(reference, users[i])
  <2>1. database = entries /\ TypeOK /\ Parsed /\ Listed /\ DistinctUsers /\ DistinctGroups
    BY DEF Inv, Stored, Parsed
  <2>2. /\ written <=> uuid \in Members(groups[j])
        /\ uuid \in ActiveUuids <=> users[i].active
    BY <2>1, Written DEF Members
  <2>3. \A k \in DOMAIN groups : GroupDN(groups[k]) = GroupDN(groups[j]) => k = j
    BY <2>1 DEF GroupDN, DistinctGroups
  <2>4. \A k \in DOMAIN users : PersonDN(users[k]) = PersonDN(users[i]) => k = i
    BY <2>1 DEF PersonDN, DistinctUsers
  <2>5. UserOf(uuid) = users[i]
    BY <2>1, TheUser
  <2>. HIDE DEF written
  <2>6. ASSUME written
        PROVE  /\ \E e \in ToSet(entries) : e.dn = GroupDN(groups[j]) /\ PersonDN(users[i]) \in e.member
               /\ \E e \in ToSet(entries) : e.dn = PersonDN(users[i]) /\ GroupDN(groups[j]) \in e.memberOf
    <3>1. uuid \in Members(groups[j]) /\ uuid \in ActiveUuids /\ users[i].active
          /\ uuid \in ToSet(groups[j].members)
      BY <2>2, <2>6 DEF Members
    <3>2. /\ GroupEntry(groups[j], Members(groups[j])) \in ToSet(entries)
          /\ UserEntry(users[i]) \in ToSet(entries)
          /\ memberships[uuid] = {GroupDN(groups[k]) : k \in {m \in DOMAIN groups : uuid \in ToSet(groups[m].members)}}
      BY <2>1, <3>1, Complete
    <3>3. GroupDN(groups[j]) \in memberships[uuid]
      BY <3>1, <3>2
    <3>4. PersonDN(users[i]) \in GroupEntry(groups[j], Members(groups[j])).member
      BY <2>1, <2>5, <3>1, GroupKeys
    <3>5. QED
      BY <2>1, <3>2, <3>3, <3>4, GroupKeys, UserKeys
  <2>7. ASSUME NEW e \in ToSet(entries), e.dn = GroupDN(groups[j]), PersonDN(users[i]) \in e.member
        PROVE  written
    <3>1. PICK k \in DOMAIN groups : e = GroupEntry(groups[k], Members(groups[k]))
      BY <2>1, <2>7, Complete, FixedKeys, UserKeys, BindKeys
    <3>2. k = j
      BY <2>1, <2>3, <2>7, <3>1, GroupKeys
    <3>3. PICK other \in Members(groups[j]) : PersonDN(users[i]) = PersonDN(UserOf(other))
      BY <2>1, <2>7, <3>1, <3>2, GroupKeys
    <3>4. PICK m \in DOMAIN users : users[m].entry_uuid = other
      BY <2>1, <3>3, ActiveUser DEF Members
    <3>5. UserOf(other) = users[m]
      BY <2>1, <3>4, TheUser
    <3>6. m = i
      BY <2>4, <3>3, <3>5
    <3>7. QED
      BY <2>2, <3>3, <3>4, <3>6
  <2>8. ASSUME NEW e \in ToSet(entries), e.dn = PersonDN(users[i]), GroupDN(groups[j]) \in e.memberOf
        PROVE  written
    <3>1. PICK m \in DOMAIN users : users[m].active /\ e = UserEntry(users[m])
      BY <2>1, <2>8, Complete, FixedKeys, GroupKeys, BindKeys
    <3>2. m = i
      BY <2>1, <2>4, <2>8, <3>1, UserKeys
    <3>3. uuid \in ActiveUuids /\ GroupDN(groups[j]) \in memberships[uuid]
      BY <2>1, <2>2, <2>8, <3>1, <3>2, UserKeys
    <3>4. PICK k \in DOMAIN groups : uuid \in ToSet(groups[k].members) /\ GroupDN(groups[k]) = GroupDN(groups[j])
      BY <2>1, <3>3, Complete
    <3>5. k = j
      BY <2>3, <3>4
    <3>6. QED
      BY <2>2, <3>3, <3>4, <3>5 DEF Members
  <2>9. QED
    BY <2>a, <2>b, <2>1, <2>6, <2>7, <2>8 DEF written
<1>2. QED
  BY <1>1, Invariance, PTL
=============================================================================
