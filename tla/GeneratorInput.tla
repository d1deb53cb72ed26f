---------------------------- MODULE GeneratorInput ----------------------------
(***************************************************************************)
(* How the generator comes to its input: read_regular of the definition    *)
(* and of the files with Vault passwords, command by command beside a host *)
(* that edits and replaces them; vault.py, which resolves the encrypted    *)
(* values in the order of the definition; the check of inline credentials; *)
(* and then the validation of schema extensions.                           *)
(* A file is a node with a mode and a text: Large is any text over the     *)
(* limit, Malformed a password that is not one line.  Prompting for a      *)
(* password is like a file that nobody edits.                              *)
(***************************************************************************)
EXTENDS SchemaExtensions

CONSTANTS Yaml,            \* path of the definition
          Sources,         \* key IDs given by --vault, which stand for the paths, too
          Definitions,     \* what the definition may say: its values
          Passwords,       \* what a password file may say
          Large, Malformed, Nodes, Absent, NoPassword, NotEncrypted,
          MaxVaultValues,  \* 256
          MaxEdits         \* bound: edits by the host

Paths == Sources \cup {Yaml}
Modes == {"private", "shared", "link"}
Texts(p) == (IF p = Yaml THEN Definitions ELSE Passwords \cup {Malformed}) \cup {Large}
Files(p) == [node : Nodes, mode : Modes, text : Texts(p)]
Versions(p) == Files(p) \cup {Absent}

ASSUME GeneratorInputAssumption ==
  /\ Yaml \notin Sources /\ NotEncrypted \notin Sources /\ MaxVaultValues \in Nat
  /\ \A p \in Paths : Absent \notin Files(p) /\ NoPassword \notin Files(p)
  /\ Large \notin Definitions
  /\ \A definition \in Definitions : Len(definition) \in Nat /\ DOMAIN definition = 1..Len(definition)

VARIABLES
  file,       \* by path
  edits,
  doing,      \* next command
  path,       \* the file that is being read
  info,       \* its lstat
  opened,     \* its descriptor
  items,      \* the values of the definition
  turn,
  passwords,  \* Vault.passwords, each with the mode that fstat found
  decrypted,  \* Vault.decrypted
  vault_count

reader == <<path, info, opened>>
vault  == <<passwords, decrypted, vault_count>>
input_vars == <<file, edits, doing, reader, items, turn, vault>>

InputInit ==
  /\ file \in [Paths -> UNION {Versions(p) : p \in Paths}]
  /\ \A p \in Paths : file[p] \in Versions(p)
  /\ edits = 0 /\ doing = "lstat" /\ path = Yaml /\ info = Absent /\ opened = Absent
  /\ items = << >> /\ turn = 1
  /\ passwords = [key \in Sources |-> NoPassword] /\ decrypted = {} /\ vault_count = 0

-----------------------------------------------------------------------------
Fail == doing' = "failed" /\ UNCHANGED <<file, edits, reader, items, turn, vault>>
Then(label) == doing' = label /\ UNCHANGED <<file, edits>>

Acceptable(version) ==
  /\ version # Absent /\ version.mode # "link" /\ version.text # Large
  /\ path # Yaml => version.mode = "private"

Lstat ==
  /\ doing = "lstat"
  /\ IF Acceptable(file[path])
       THEN /\ Then("open") /\ info' = file[path]
            /\ UNCHANGED <<path, opened, items, turn, vault>>
       ELSE Fail

\* O_NOFOLLOW.
Open ==
  /\ doing = "open"
  /\ IF file[path] # Absent /\ file[path].mode # "link"
       THEN /\ Then("fstat") /\ opened' = file[path]
            /\ UNCHANGED <<path, info, items, turn, vault>>
       ELSE Fail

\* Variant: only the node is compared.
FstatNode ==
  /\ doing = "fstat"
  /\ IF opened.node = info.node
       THEN Then("read") /\ UNCHANGED <<reader, items, turn, vault>>
       ELSE Fail

Fstat ==
  /\ doing = "fstat"
  /\ IF opened.node = info.node /\ opened.mode = info.mode
       THEN Then("read") /\ UNCHANGED <<reader, items, turn, vault>>
       ELSE Fail

Close == info' = Absent /\ opened' = Absent

ReadDefinition ==
  /\ doing = "read" /\ path = Yaml
  /\ IF opened.text = Large THEN Fail
     ELSE /\ Then("resolve") /\ items' = opened.text /\ Close
          /\ UNCHANGED <<path, turn, vault>>

ReadPassword ==
  /\ doing = "read" /\ path # Yaml
  /\ IF opened.text \in {Large, Malformed} THEN Fail
     ELSE /\ passwords' = [passwords EXCEPT ![path] = opened]
          /\ Then("decrypt") /\ Close
          /\ UNCHANGED <<path, items, turn, decrypted, vault_count>>

\* Variant: a value that has been decrypted before is not counted.
ResolveCountsNew ==
  /\ doing = "resolve" /\ turn <= Len(items)
  /\ LET key == items[turn].key
         new == IF items[turn] \in decrypted THEN 0 ELSE 1 IN
     \/ /\ key = NotEncrypted
        /\ Then("resolve") /\ turn' = turn + 1 /\ UNCHANGED <<reader, items, vault>>
     \/ /\ key # NotEncrypted
        /\ vault_count + new > MaxVaultValues \/ key \notin Sources
        /\ Fail
     \/ /\ key # NotEncrypted /\ vault_count + new <= MaxVaultValues /\ key \in Sources
        /\ vault_count' = vault_count + new
        /\ UNCHANGED <<info, opened, items, turn, passwords, decrypted>>
        /\ IF passwords[key] = NoPassword THEN Then("lstat") /\ path' = key
                                          ELSE Then("decrypt") /\ UNCHANGED path

\* Vault.resolve, then Vault.decrypt up to Vault.password.
Resolve ==
  /\ doing = "resolve" /\ turn <= Len(items)
  /\ LET key == items[turn].key IN
     \/ /\ key = NotEncrypted
        /\ Then("resolve") /\ turn' = turn + 1 /\ UNCHANGED <<reader, items, vault>>
     \/ key # NotEncrypted /\ (vault_count >= MaxVaultValues \/ key \notin Sources) /\ Fail
     \/ /\ key # NotEncrypted /\ vault_count < MaxVaultValues /\ key \in Sources
        /\ vault_count' = vault_count + 1
        /\ UNCHANGED <<info, opened, items, turn, passwords, decrypted>>
        /\ IF passwords[key] = NoPassword THEN Then("lstat") /\ path' = key
                                          ELSE Then("decrypt") /\ UNCHANGED path

\* What has been decrypted before is not decrypted again.
Decrypt ==
  /\ doing = "decrypt"
  /\ LET item == items[turn] IN
     IF item \in decrypted \/ passwords[item.key].text = item.under
       THEN /\ Then("resolve") /\ turn' = turn + 1 /\ decrypted' = decrypted \cup {item}
            /\ UNCHANGED <<reader, items, passwords, vault_count>>
       ELSE Fail

Resolved ==
  /\ doing = "resolve" /\ turn > Len(items)
  /\ Then("inline") /\ turn' = 1 /\ UNCHANGED <<reader, items, vault>>

\* default_credential_source looks the path up again and follows a link, to a
\* file of either kind or to none.
InlineCredential ==
  /\ doing = "inline" /\ turn <= Len(items)
  /\ \/ /\ items[turn].key = NotEncrypted => file[Yaml] # Absent /\ file[Yaml].mode # "shared"
        /\ Then("inline") /\ turn' = turn + 1 /\ UNCHANGED <<reader, items, vault>>
     \/ /\ items[turn].key = NotEncrypted
        /\ file[Yaml] # Absent => file[Yaml].mode # "private"
        /\ Fail

Loaded ==
  /\ doing = "inline" /\ turn > Len(items)
  /\ Then("loaded") /\ UNCHANGED <<reader, items, turn, vault>>

ReadInput ==
  \/ Lstat \/ Open \/ Fstat \/ ReadDefinition \/ ReadPassword
  \/ Resolve \/ Decrypt \/ Resolved \/ InlineCredential \/ Loaded

\* The host removes the file or puts another one in its place; the node of a file
\* that is still open is not given again.
InUse(p) == {v.node : v \in {file[p], IF p = path THEN opened ELSE Absent} \ {Absent}}
ReplaceFile(p) ==
  /\ \E version \in {Absent} \cup {v \in Files(p) : v.node \notin InUse(p)} :
       file' = [file EXCEPT ![p] = version]
  /\ UNCHANGED opened

\* The host changes mode or text of the file in place.
EditFile(p) ==
  /\ file[p] # Absent /\ file[p].mode # "link"
  /\ \E version \in Files(p) :
       /\ version.node = file[p].node /\ version.mode # "link"
       /\ file' = [file EXCEPT ![p] = version]
       /\ opened' = IF p # path \/ opened = Absent \/ opened.node # version.node THEN opened
                    ELSE IF doing = "fstat" THEN version
                    ELSE [opened EXCEPT !.text = version.text]

Host ==
  /\ edits < MaxEdits /\ edits' = edits + 1 /\ doing \notin {"loaded", "failed"}
  /\ \E p \in Paths : ReplaceFile(p) \/ EditFile(p)
  /\ UNCHANGED <<doing, path, info, items, turn, vault>>

InputRest == doing = "failed" /\ UNCHANGED <<input_vars, extension_vars>>

Generator ==
  \/ ReadInput /\ UNCHANGED extension_vars
  \/ doing = "loaded" /\ ExtensionNext /\ UNCHANGED input_vars
  \/ InputRest
InputNext == Generator \/ (Host /\ UNCHANGED extension_vars)
all_vars == <<input_vars, extension_vars>>
InputSpec ==
  InputInit /\ ExtensionInit /\ [][InputNext]_all_vars /\ WF_all_vars(Generator)

-----------------------------------------------------------------------------
(* Properties.                                                             *)

\* A Vault password is taken only from a file that nobody else could read when
\* it had been opened, and all values with one key ID are decrypted with one password,
\* whatever the host does to the file during the run.
OnePrivatePassword ==
  /\ \A key \in Sources : passwords[key] # NoPassword => passwords[key].mode = "private"
  /\ \A one, other \in decrypted : one.key = other.key => one.under = other.under

\* Input that is used has all of its encrypted values decrypted, each with a --vault
\* of its key ID, and no more of them than the limit: occurrences count, so that a
\* repetition, which is not decrypted again, counts too.
EncryptedUpTo(n) == {i \in 1..n : items[i].key # NotEncrypted}
Accounted(n) ==
  /\ Cardinality(EncryptedUpTo(n)) <= MaxVaultValues
  /\ \A i \in EncryptedUpTo(n) : items[i].key \in Sources /\ items[i] \in decrypted
VaultLimits == doing = "loaded" => Accounted(Len(items))

\* The generator comes to an end of its input, it refuses it or has validated it,
\* whatever the host did meanwhile and for every schema, those with a circle of
\* attributes or of classes included.
InputEnds == <>(doing = "failed" \/ Ended)

\* Why the first two hold: what lstat and fstat have found is still so of the
\* descriptor that is read, no password is read twice, and the count is that of
\* the values up to the one that is being resolved.
Reading == doing \in {"lstat", "open", "fstat", "read"}

InputTypeOK ==
  /\ DOMAIN file = Paths /\ \A p \in Paths : file[p] \in Versions(p)
  /\ path \in Paths /\ turn \in Nat \ {0} /\ vault_count \in Nat
  /\ DOMAIN passwords = Sources
  /\ doing \in {"fstat", "read"} => opened \in Files(path)
  /\ Len(items) \in Nat /\ DOMAIN items = 1..Len(items)

PrivateSoFar ==
  path # Yaml => /\ doing \in {"open", "fstat"} => info.mode = "private"
                 /\ doing = "read" => opened.mode = "private"

Keyed ==
  /\ Reading /\ path # Yaml => passwords[path] = NoPassword /\ items[turn].key = path
  /\ doing = "decrypt" => items[turn].key \in Sources /\ passwords[items[turn].key] # NoPassword
  /\ \A key \in Sources : passwords[key] # NoPassword => passwords[key].mode = "private"
  /\ \A item \in decrypted : /\ item.key \in Sources /\ passwords[item.key] # NoPassword
                             /\ passwords[item.key].text = item.under

Counted ==
  /\ Reading /\ path = Yaml => turn = 1 /\ vault_count = 0
  /\ doing = "resolve" => turn <= Len(items) + 1
  /\ (Reading /\ path # Yaml) \/ doing \in {"resolve", "decrypt"} =>
       Accounted(turn - 1) /\ vault_count <= MaxVaultValues
  /\ doing = "resolve" => vault_count = Cardinality(EncryptedUpTo(turn - 1))
  /\ (Reading /\ path # Yaml) \/ doing = "decrypt" =>
       turn <= Len(items) /\ vault_count = Cardinality(EncryptedUpTo(turn - 1)) + 1
  /\ doing \in {"inline", "loaded"} => Accounted(Len(items))

InputInv == InputTypeOK /\ PrivateSoFar /\ Keyed /\ Counted
=============================================================================
