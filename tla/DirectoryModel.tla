---------------------------- MODULE DirectoryModel ----------------------------
(***************************************************************************)
(* From a users/groups definition to a database: the parser and the        *)
(* renderer of generator/generate.py, the LDIF checks of                   *)
(* scripts/directory_data.py and the import of scripts/init-slapd.sh.      *)
(*                                                                         *)
(* The definition is read one list item at a time, and every item that can *)
(* stand at that place is tried.  A DN is written relative to the base DN, *)
(* leaf first.  Profile attributes, schema extensions and the content of   *)
(* credentials are left out.                                               *)
(***************************************************************************)
EXTENDS Naturals, FiniteSets, SequencesExt

CONSTANTS Strings,        \* what matches UID_PATTERN
          Fold,           \* str.casefold
          Uuids,          \* canonical UUIDs; they match UID_PATTERN too
          BaseUuid,       \* entry_uuid of the definition
          container_uuid, \* UUIDs derived from BaseUuid, by container
          UserItems, GroupItems, BindItems,  \* well-formed items of the lists
          MaxItems        \* bound on the length of a list

Containers == {"people", "groups", "services"}

ASSUME DirectoryAssumption ==
  /\ Fold \in [Strings -> Strings] /\ \A s \in Strings : Fold[Fold[s]] = Fold[s]
  /\ Uuids \subseteq Strings /\ \A uuid \in Uuids : Fold[uuid] = uuid
  /\ BaseUuid \in Uuids /\ container_uuid \in [Containers -> Uuids \ {BaseUuid}]
  /\ IsInjective(container_uuid)
  /\ UserItems \subseteq [entry_uuid : Uuids, username : Strings,
                          active : BOOLEAN, credential : BOOLEAN]
  /\ GroupItems \subseteq [entry_uuid : Uuids, groupname : Strings, members : Seq(Strings)]
  /\ BindItems \subseteq [entry_uuid : Uuids, username : Strings, credential : BOOLEAN]
  /\ MaxItems \in Nat

VARIABLES
  phase,         \* the loop the program is in, or how it ended
  users, groups, bind_accounts,  \* the dictionaries, in insertion order
  entries,       \* the list that simplified_entries builds
  memberships,   \* by UUID of an active user, the DNs of its groups
  next,          \* position in the dictionary that is rendered
  ldif,          \* directory.ldif
  database       \* what slapcat reads back, in the order of the import

definition == <<users, groups, bind_accounts>>
rendering  == <<entries, memberships, next>>
vars       == <<phase, definition, rendering, ldif, database>>

Parsing   == {"users", "groups", "bind_accounts", "directory"}
Rendering == {"base", "group_entries", "user_entries", "bind_entries", "write"}
Building  == {"validate", "import", "verify"}
\* refused: ConfigurationError; failed: any other exception; invalid: the
\* generator's own check of its output; rejected: the container does not start.
Ended     == {"refused", "failed", "invalid", "rejected", "built"}

-----------------------------------------------------------------------------
(* Distinguished names and entries.                                        *)

Base          == << >>
PersonDN(u)   == <<u.username, "people">>
GroupDN(g)    == <<g.groupname, "groups">>
ServiceDN(b)  == <<b.username, "services">>

\* dn_key: names of containers are lower case already.
dn_key(dn) == IF Len(dn) = 2 THEN <<Fold[dn[1]], dn[2]>> ELSE dn

Entry(class, dn, uuid) ==
  [class |-> class, dn |-> dn, uuid |-> uuid, member |-> {}, memberOf |-> {}]

NameSet == Strings \cup Containers
DNs     == UNION {[1..n -> NameSet] : n \in 0..2}
Entries == [class : {"organization", "organizationalUnit", "inetOrgPerson",
                     "groupOfNames", "organizationalRole"},
            dn : DNs, uuid : Uuids, member : SUBSET DNs, memberOf : SUBSET DNs]

UuidsOf(items) == {item.entry_uuid : item \in ToSet(items)}
NamesOf(items) == {Fold[item.username] : item \in ToSet(items)}

\* Variant: whoever has a credential is rendered.
Credentialed(u) == u.credential

\* Only active users are rendered.
Published(u) == u.active

ActiveUuids == {u.entry_uuid : u \in {v \in ToSet(users) : Published(v)}}
UserOf(uuid) == CHOOSE u \in ToSet(users) : u.entry_uuid = uuid

-----------------------------------------------------------------------------
Init ==
  /\ phase = "users"
  /\ users = << >> /\ groups = << >> /\ bind_accounts = << >>
  /\ entries = << >> /\ memberships = << >> /\ next = 1
  /\ ldif = << >> /\ database = << >>

Output == <<rendering, ldif, database>>

(* parse_directory.                                                        *)

\* An item of the wrong form, at any place of the definition.
FormatError ==
  /\ phase \in Parsing
  /\ phase' = "refused"
  /\ UNCHANGED <<definition, Output>>

NewUser(item) ==
  /\ item.entry_uuid \notin UuidsOf(users)
  /\ Fold[item.username] \notin NamesOf(users)
  /\ item.active => item.credential

\* parse_users.
ParseUser ==
  /\ phase = "users" /\ Len(users) < MaxItems
  /\ \E item \in UserItems :
       \/ NewUser(item) /\ users' = Append(users, item) /\ UNCHANGED phase
       \/ ~NewUser(item) /\ phase' = "refused" /\ UNCHANGED users
  /\ UNCHANGED <<groups, bind_accounts, Output>>

\* A reference names a user by username or by UUID, in any capitalization.
candidates(reference) ==
  {u.entry_uuid : u \in {v \in ToSet(users) : Fold[reference] \in {v.entry_uuid, Fold[v.username]}}}

\* Variant: the UUID wins when a reference names two users.
UuidFirst(references) ==
  /\ \A i \in DOMAIN references : candidates(references[i]) # {}
  /\ \A i, j \in DOMAIN references :
       i # j => candidates(references[i]) \cap candidates(references[j]) = {}

\* resolve_members: each reference names one user, and no two the same one.
Resolvable(references) ==
  /\ \A i \in DOMAIN references : Cardinality(candidates(references[i])) = 1
  /\ \A i, j \in DOMAIN references :
       i # j => candidates(references[i]) # candidates(references[j])

resolve_members(references) ==
  [i \in DOMAIN references |-> CHOOSE uuid \in candidates(references[i]) : TRUE]

NewGroup(item) ==
  /\ Resolvable(item.members)
  /\ item.entry_uuid \notin UuidsOf(groups)
  /\ \A g \in ToSet(groups) : Fold[item.groupname] # Fold[g.groupname]

\* parse_groups.  What the YAML says is kept as references.
Resolved(item) ==
  [entry_uuid |-> item.entry_uuid, groupname |-> item.groupname,
   members |-> resolve_members(item.members), references |-> ToSet(item.members)]

ParseGroup ==
  /\ phase = "groups" /\ Len(groups) < MaxItems
  /\ \E item \in GroupItems :
       \/ NewGroup(item) /\ groups' = Append(groups, Resolved(item)) /\ UNCHANGED phase
       \/ ~NewGroup(item) /\ phase' = "refused" /\ UNCHANGED groups
  /\ UNCHANGED <<users, bind_accounts, Output>>

NewBind(item) ==
  /\ item.entry_uuid \notin UuidsOf(bind_accounts)
  /\ Fold[item.username] \notin NamesOf(bind_accounts)
  /\ item.credential

\* parse_bind_accounts.
ParseBindAccount ==
  /\ phase = "bind_accounts" /\ Len(bind_accounts) < MaxItems
  /\ \E item \in BindItems :
       \/ NewBind(item) /\ bind_accounts' = Append(bind_accounts, item) /\ UNCHANGED phase
       \/ ~NewBind(item) /\ phase' = "refused" /\ UNCHANGED bind_accounts
  /\ UNCHANGED <<users, groups, Output>>

\* A list ends; the list of bind accounts must not be empty.
EndOfList ==
  /\ \/ phase = "users" /\ phase' = "groups"
     \/ phase = "groups" /\ phase' = "bind_accounts"
     \/ phase = "bind_accounts" /\ bind_accounts # << >> /\ phase' = "directory"
  /\ UNCHANGED <<definition, Output>>

DistinctNames == NamesOf(users) \cap NamesOf(bind_accounts) = {}

GeneratedUuids == {BaseUuid} \cup {container_uuid[name] : name \in Containers}

\* Variant: generated_uuids is not extended by the lists already compared.
DistinctFromGenerated ==
  \A items \in {users, groups, bind_accounts} : GeneratedUuids \cap UuidsOf(items) = {}

DistinctUuids ==
  /\ GeneratedUuids \cap UuidsOf(users) = {}
  /\ (GeneratedUuids \cup UuidsOf(users)) \cap UuidsOf(groups) = {}
  /\ (GeneratedUuids \cup UuidsOf(users) \cup UuidsOf(groups)) \cap UuidsOf(bind_accounts) = {}

\* Variant: users and bind accounts are not compared by name.
CompareUuids ==
  /\ phase = "directory"
  /\ phase' = IF DistinctUuids THEN "base" ELSE "refused"
  /\ UNCHANGED <<definition, Output>>

\* What parse_directory compares across the lists.
CompareLists ==
  /\ phase = "directory"
  /\ phase' = IF DistinctNames /\ DistinctUuids THEN "base" ELSE "refused"
  /\ UNCHANGED <<definition, Output>>

-----------------------------------------------------------------------------
(* simplified_entries: one step per iteration.                             *)

BaseEntry  == Entry("organization", Base, BaseUuid)
Unit(name) == Entry("organizationalUnit", <<name>>, container_uuid[name])

RenderBase ==
  /\ phase = "base" /\ phase' = "group_entries"
  /\ entries' = <<BaseEntry, Unit("people"), Unit("groups"), Unit("services")>>
  /\ memberships' = [uuid \in ActiveUuids |-> {}]
  /\ UNCHANGED <<definition, next, ldif, database>>

\* The next loop begins when the dictionary of this one is exhausted.
EndOfLoop ==
  /\ \/ phase = "group_entries" /\ next > Len(groups) /\ phase' = "user_entries"
     \/ phase = "user_entries" /\ next > Len(users) /\ phase' = "bind_entries"
     \/ phase = "bind_entries" /\ next > Len(bind_accounts) /\ phase' = "write"
  /\ next' = 1
  /\ UNCHANGED <<definition, entries, memberships, ldif, database>>

GroupEntry(g, members) ==
  [Entry("groupOfNames", GroupDN(g), g.entry_uuid)
     EXCEPT !.member = {PersonDN(UserOf(uuid)) : uuid \in members}]

\* A group without active members is left out.
RenderGroup ==
  /\ phase = "group_entries" /\ next <= Len(groups)
  /\ LET g       == groups[next]
         members == ToSet(g.members) \cap DOMAIN memberships
     IN  IF members = {}
           THEN UNCHANGED <<entries, memberships>>
           ELSE /\ entries' = Append(entries, GroupEntry(g, members))
                /\ memberships' = [uuid \in DOMAIN memberships |->
                     IF uuid \in members THEN memberships[uuid] \cup {GroupDN(g)}
                                         ELSE memberships[uuid]]
  /\ next' = next + 1
  /\ UNCHANGED <<phase, definition, ldif, database>>

UserEntry(u) ==
  [Entry("inetOrgPerson", PersonDN(u), u.entry_uuid)
     EXCEPT !.memberOf = memberships[u.entry_uuid]]

RenderUser ==
  /\ phase = "user_entries" /\ next <= Len(users)
  /\ LET u == users[next]
     IN  \/ /\ ~Published(u)
            /\ next' = next + 1 /\ UNCHANGED <<phase, entries>>
         \/ /\ Published(u) /\ u.credential
            /\ entries' = Append(entries, UserEntry(u))
            /\ next' = next + 1 /\ UNCHANGED phase
         \/ /\ Published(u) /\ ~u.credential
            /\ phase' = "failed" /\ UNCHANGED <<next, entries>>
  /\ UNCHANGED <<definition, memberships, ldif, database>>

BindEntry(b) == Entry("organizationalRole", ServiceDN(b), b.entry_uuid)

RenderBindAccount ==
  /\ phase = "bind_entries" /\ next <= Len(bind_accounts)
  /\ entries' = Append(entries, BindEntry(bind_accounts[next]))
  /\ next' = next + 1
  /\ UNCHANGED <<phase, definition, memberships, ldif, database>>

\* A credential file is read when its entry is rendered.
CredentialUnreadable ==
  /\ \/ phase = "user_entries" /\ next <= Len(users) /\ Published(users[next])
     \/ phase = "bind_entries" /\ next <= Len(bind_accounts)
  /\ phase' = "refused"
  /\ UNCHANGED <<definition, Output>>

-----------------------------------------------------------------------------
(* The LDIF file and the database.                                         *)

\* Parents first.  Entries of one depth are sorted by DN in the code; here they
\* keep their order.
NoLater(list, i) ==
  {j \in DOMAIN list : Len(list[j].dn) < Len(list[i].dn) + (IF j <= i THEN 1 ELSE 0)}
ByDepth(list) ==
  [place \in DOMAIN list |->
     list[CHOOSE i \in DOMAIN list : Cardinality(NoLater(list, i)) = place]]

\* Each entry carries one UUID by construction, and no DN is out of the base.
validate_entries(list) ==
  /\ \A i, j \in DOMAIN list :
       i # j => list[i].dn # list[j].dn /\ list[i].uuid # list[j].uuid
  /\ \E entry \in ToSet(list) : dn_key(entry.dn) = Base
  /\ \A entry \in ToSet(list) :
       dn_key(entry.dn) = Base \/ \E other \in ToSet(list) : dn_key(other.dn) = Tail(dn_key(entry.dn))

\* generate_snapshot writes the file, reads it back and validates it.
WriteDirectory ==
  /\ phase = "write"
  /\ ldif' = ByDepth(entries)
  /\ phase' = IF validate_entries(ldif') THEN "validate" ELSE "invalid"
  /\ UNCHANGED <<definition, rendering, database>>

ValidateInputs ==
  /\ phase = "validate"
  /\ phase' = IF validate_entries(ldif) THEN "import" ELSE "rejected"
  /\ UNCHANGED <<definition, rendering, ldif, database>>

\* slapadd: equality of DNs ignores case, and groupOfNames requires a member.
Importable(list) ==
  /\ \A i, j \in DOMAIN list : i # j => dn_key(list[i].dn) # dn_key(list[j].dn)
  /\ \A entry \in ToSet(list) : entry.class = "groupOfNames" => entry.member # {}

import_directory_data ==
  /\ phase = "import"
  /\ IF Importable(ldif)
       THEN phase' = "verify" /\ database' = ldif
       ELSE phase' = "rejected" /\ UNCHANGED database
  /\ UNCHANGED <<definition, rendering, ldif>>

\* The two lists of verify_built_database: pairs of member and group.
GroupMemberships ==
  UNION {{<<dn_key(dn), dn_key(e.dn)>> : dn \in e.member} : e \in ToSet(database)}
UserMemberships ==
  UNION {{<<dn_key(e.dn), dn_key(dn)>> : dn \in e.memberOf} : e \in ToSet(database)}

verify_built_database ==
  /\ phase = "verify"
  /\ phase' = IF validate_entries(database) /\ GroupMemberships = UserMemberships
                THEN "built" ELSE "rejected"
  /\ UNCHANGED <<definition, rendering, ldif, database>>

Finished == phase \in Ended /\ UNCHANGED vars

Parse  == \/ FormatError \/ ParseUser \/ ParseGroup \/ ParseBindAccount
          \/ EndOfList \/ CompareLists
Render == \/ RenderBase \/ RenderGroup \/ RenderUser \/ RenderBindAccount
          \/ CredentialUnreadable \/ EndOfLoop
Build  == WriteDirectory \/ ValidateInputs \/ import_directory_data \/ verify_built_database

Next == Parse \/ Render \/ Build \/ Finished

Spec == Init /\ [][Next]_vars

-----------------------------------------------------------------------------
Groups == [entry_uuid : Uuids, groupname : Strings, members : Seq(Uuids),
           references : SUBSET Strings]

TypeOK ==
  /\ phase \in Parsing \cup Rendering \cup Building \cup Ended
  /\ users \in Seq(UserItems) /\ groups \in Seq(Groups) /\ bind_accounts \in Seq(BindItems)
  /\ entries \in Seq(Entries) /\ ldif \in Seq(Entries) /\ database \in Seq(Entries)
  /\ DOMAIN memberships \subseteq Uuids /\ next \in 1..MaxItems + 1

\* What the parser accepts, the renderer renders, the generator's own check
\* passes and the container imports and serves: duplicate or clashing names,
\* UUIDs and empty groups are all refused or left out before.
AcceptedIsServable == phase \notin {"failed", "invalid", "rejected"}

\* A search for a uid finds at most one account that can bind, in any
\* capitalization and across people and services.
LoginsUnambiguous ==
  \A e, f \in ToSet(database) :
    ( /\ e # f
      /\ {e.class, f.class} \subseteq {"inetOrgPerson", "organizationalRole"} )
      => Fold[e.dn[1]] # Fold[f.dn[1]]

Names(reference, u) == Fold[reference] \in {u.entry_uuid, Fold[u.username]}

\* A user is a member of a group in the database, seen from the group and
\* from the user, exactly if the user is active and the definition of the
\* group refers to the user by either name.
MembershipsAsWritten ==
  phase = "built" =>
    \A u \in ToSet(users), g \in ToSet(groups) :
      LET written == u.active /\ \E reference \in g.references : Names(reference, u)
      IN  /\ written <=> \E e \in ToSet(database) : e.dn = GroupDN(g) /\ PersonDN(u) \in e.member
          /\ written <=> \E e \in ToSet(database) : e.dn = PersonDN(u) /\ GroupDN(g) \in e.memberOf

\* Every active user is served and nothing in the database is about another
\* one: neither an entry nor a member of a group.
OnlyActiveServed ==
  phase = "built" =>
    LET People == {PersonDN(u) : u \in {v \in ToSet(users) : v.active}}
    IN  /\ {e.dn : e \in {f \in ToSet(database) : f.class = "inetOrgPerson"}} = People
        /\ \A e \in ToSet(database) : e.member \subseteq People

-----------------------------------------------------------------------------
(* Why it holds.                                                           *)

\* A list has one item for each UUID, and one for each name in any case.
DistinctUsers ==
  \A i, j \in DOMAIN users : i # j =>
    users[i].entry_uuid # users[j].entry_uuid /\ Fold[users[i].username] # Fold[users[j].username]
DistinctGroups ==
  \A i, j \in DOMAIN groups : i # j =>
    groups[i].entry_uuid # groups[j].entry_uuid /\ Fold[groups[i].groupname] # Fold[groups[j].groupname]
DistinctBinds ==
  \A i, j \in DOMAIN bind_accounts : i # j =>
    /\ bind_accounts[i].entry_uuid # bind_accounts[j].entry_uuid
    /\ Fold[bind_accounts[i].username] # Fold[bind_accounts[j].username]

Parsed ==
  /\ {Len(users), Len(groups), Len(bind_accounts)} \subseteq 0..MaxItems
  /\ DistinctUsers /\ DistinctGroups /\ DistinctBinds
  /\ \A u \in ToSet(users) : u.active => u.credential
  /\ \A g \in ToSet(groups) : ToSet(g.members) = UNION {candidates(reference) : reference \in g.references}
  /\ phase = "users" => groups = << >>
  /\ phase \in Parsing \cup {"base"} => next = 1
  /\ phase \notin Parsing \cup {"refused"} => DistinctNames /\ DistinctUuids

\* Which items the loops have rendered.
GroupsDone == {i \in DOMAIN groups : phase = "group_entries" => i < next}
UsersDone  == {i \in DOMAIN users : phase # "group_entries" /\ (phase = "user_entries" => i < next)}
BindsDone  == {i \in DOMAIN bind_accounts :
                 phase \notin {"group_entries", "user_entries"} /\ (phase = "bind_entries" => i < next)}

Members(g) == ToSet(g.members) \cap ActiveUuids
FixedEntries   == {BaseEntry} \cup {Unit(name) : name \in Containers}
RenderedGroups ==
  {GroupEntry(groups[i], Members(groups[i])) : i \in {k \in GroupsDone : Members(groups[k]) # {}}}
RenderedUsers  == {UserEntry(users[i]) : i \in {k \in UsersDone : Published(users[k])}}
RenderedBinds  == {BindEntry(bind_accounts[i]) : i \in BindsDone}
GroupsOf(uuid) == {GroupDN(groups[i]) : i \in {k \in GroupsDone : uuid \in ToSet(groups[k].members)}}

\* No two entries agree in the DN, in any case, or in the UUID.
Unique(list) ==
  \A i, j \in DOMAIN list : i # j =>
    dn_key(list[i].dn) # dn_key(list[j].dn) /\ list[i].uuid # list[j].uuid
ParentsFirst(list) == \A i, j \in DOMAIN list : i <= j => Len(list[i].dn) <= Len(list[j].dn)

Listed ==
  phase \in (Rendering \ {"base"}) \cup Building \cup {"built"} =>
    /\ memberships = [uuid \in ActiveUuids |-> GroupsOf(uuid)]
    /\ ToSet(entries) = FixedEntries \cup RenderedGroups \cup RenderedUsers \cup RenderedBinds
    /\ Unique(entries) /\ ParentsFirst(entries)

Stored ==
  /\ phase \in Building \cup {"built"} => ldif = entries
  /\ database = IF phase \in {"verify", "built"} THEN entries ELSE << >>

Inv == TypeOK /\ Parsed /\ Listed /\ Stored /\ AcceptedIsServable
=============================================================================
