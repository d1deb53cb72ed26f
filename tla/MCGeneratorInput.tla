--------------------------- MODULE MCGeneratorInput ---------------------------
(* Instances of GeneratorInput.                                               *)
(* Reading: a definition of up to three values, with two passwords; the host  *)
(* may edit twice.  The entry to validate is then a simple one.               *)
(* Attributes: a definition adds up to two, or three, which is one too many.  *)
(* The schema may make fax or nick a subtype of each other, of a generated    *)
(* attribute, of one that only slapd knows, of a single-valued, a collective  *)
(* or a configuration attribute.  The generated attributes that no request    *)
(* comes near share the OID "rest".                                           *)
(* Classes: four and extensibleObject; mixin has an alias.  The schema may    *)
(* draw chains, diamonds, circles and superiors that are structural, unknown  *)
(* or extensibleObject.                                                       *)
(* The two validations share no state: one of the lists is always simple.  A  *)
(* rich entry is validated after a definition without Vault values.           *)
EXTENDS GeneratorInput, TLC

Spelled ==  \* other spellings
  ("CN" :> "cn") @@ ("commonName" :> "commonname") @@ ("displayName" :> "displayname")
  @@ ("objectClass" :> "objectclass") @@ ("entryUUID" :> "entryuuid") @@ ("FAX" :> "fax")
  @@ ("userPassword" :> "userpassword") @@ ("memberOf" :> "memberof")
  @@ ("proxyAddresses" :> "proxyaddresses") @@ ("olcAccess" :> "olcaccess")
Folded == {Spelled[name] : name \in DOMAIN Spelled} \cup MANAGED_ATTRIBUTES
          \cup UNION {Reserved[kind_] : kind_ \in DOMAIN Reserved}
          \cup {"fax", "facsimile", "nick", "c", "uuidalias"}
MCNames == Folded \cup DOMAIN Spelled
MCFold == Spelled @@ [name \in Folded |-> name]

Meaning == ("cn" :> "cn") @@ ("commonname" :> "cn") @@ ("displayname" :> "display")
           @@ ("fax" :> "fax") @@ ("facsimile" :> "fax") @@ ("nick" :> "nick") @@ ("c" :> "c")
           @@ ("olcaccess" :> "olc") @@ ("member" :> "member") @@ ("2.5.4.31" :> "member")
           @@ ("entryuuid" :> "uuid") @@ ("1.3.6.1.1.16.4" :> "uuid")
           @@ ("uuidalias" :> "uuid")
MCMeans == [name \in MCNames |->
              IF MCFold[name] \in DOMAIN Meaning THEN Meaning[MCFold[name]] ELSE "rest"]
MCOids == {MCMeans[name] : name \in MCNames}
\* The schema files do not define memberOf, which slapd has built in, and define
\* entryUUID under a name of their own.
MCCatalog == Folded \ {"entryuuid", "memberof", "1.2.840.113556.1.2.102"}

Flat == [oid \in MCOids |-> << >>]
MCSchemas ==
  {[Flat EXCEPT !["fax"] = f, !["nick"] = n] :
     f \in {<< >>, <<"nick">>, <<"commonName">>, <<"2.5.4.31">>, <<"nick", "c">>},
     n \in {<< >>, <<"fax">>, <<"displayname">>, <<"uuidalias">>, <<"memberOf">>, <<"olcAccess">>}}

Item(name, values) == [name |-> name, values |-> values]
Items == {Item(name, <<"v">>) : name \in {"CN", "commonName", "member", "uuidalias", "fax", "FAX",
                                          "facsimile", "nick", "displayName"}}
         \cup {Item(name, <<"v", "w">>) : name \in {"facsimile", "nick", "displayName"}}
MCRequests == {<< >>, <<Item("fax", << >>)>>, <<Item("fax", <<"v", "v">>)>>,
               <<Item("c", <<"v">>)>>, <<Item("olcAccess", <<"v">>)>>,
               <<Item("fax", <<"v">>), Item("nick", <<"v">>), Item("displayName", <<"v">>)>>}
              \cup {<<item>> : item \in Items}
              \cup {pair \in Items \X Items : pair[1].name # pair[2].name}

-----------------------------------------------------------------------------
CONSTANTS person, aux, mixin, parent, extensible

MCClassOf == ("person" :> person) @@ ("aux" :> aux) @@ ("mixin" :> mixin) @@ ("alias" :> mixin)
             @@ ("parent" :> parent) @@ ("extensibleobject" :> extensible) @@ ("unknown" :> NoClass)
MCClassNames == DOMAIN MCClassOf
MCKind == (person :> "structural") @@ (aux :> "auxiliary") @@ (mixin :> "auxiliary")
          @@ (parent :> "abstract") @@ (extensible :> "auxiliary")

UpToTwo(names) == {<< >>} \cup {<<name>> : name \in names} \cup (names \X names)

Plain == [class \in {person, aux, mixin, parent, extensible} |-> << >>]
MCClassSchemas ==
  {[Plain EXCEPT ![aux] = a, ![mixin] = m, ![parent] = p] :
     a \in UpToTwo({"mixin", "parent", "alias"}), m \in UpToTwo({"aux", "parent", "person"}),
     p \in {<< >>, <<"aux">>, <<"extensibleobject">>, <<"unknown">>}}
MCClassRequests ==
  UpToTwo({"aux", "mixin", "alias"})
  \cup {<<"person">>, <<"unknown">>, <<"aux", "person">>, <<"aux", "mixin", "alias">>}

SimpleAttributes == sup = Flat /\ attributes = << >> /\ kind = "group"
SimpleClasses == superiors = Plain /\ object_classes = <<"aux">>

-----------------------------------------------------------------------------
CONSTANTS w1, w2

Plaintext == [key |-> NotEncrypted, under |-> NoPassword, id |-> 1]
Encrypted(key, under, id) == [key |-> key, under |-> under, id |-> id]
V1 == Encrypted("k", w1, 1)
V2 == Encrypted("k", w2, 2)
MCDefinitions == {<<Plaintext>>, <<V1, Plaintext>>, <<V1, V2>>, <<V1, V1, V1>>,
                  <<V1, Encrypted("k", w1, 3)>>, <<Encrypted("other", w1, 1)>>}

\* The definition has just been read, and nobody edits it any more.
AfterReading ==
  /\ file = [p \in Paths |-> [node |-> 1, mode |-> "private", text |-> Large]]
  /\ edits = MaxEdits /\ doing = "loaded" /\ path = Yaml /\ info = Absent /\ opened = Absent
  /\ items = << >> /\ turn = 1
  /\ passwords = [key \in Sources |-> NoPassword] /\ decrypted = {} /\ vault_count = 0

MCInit ==
  \/ /\ InputInit
     /\ file[Yaml] \in [node : {1}, mode : {"private", "shared"}, text : Definitions]
     /\ file["k"] = [node |-> 1, mode |-> "private", text |-> w1]
     /\ SimpleAttributes /\ SimpleClasses /\ ExtensionInit
  \/ AfterReading /\ (SimpleAttributes \/ SimpleClasses) /\ ExtensionInit
MCSpec == MCInit /\ [][InputNext]_all_vars /\ WF_all_vars(Generator)
=============================================================================
