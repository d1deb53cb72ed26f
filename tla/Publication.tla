----------------------------- MODULE Publication -----------------------------
(***************************************************************************)
(* How generator/initialize.py publishes a definition and how main of      *)
(* generator/generate.py publishes a snapshot, when several runs use the   *)
(* same paths, somebody else creates those paths or edits the schema file, *)
(* and runs fail or are interrupted at any step.  The snapshots are made   *)
(* from a users/groups definition with one schema file.                    *)
(***************************************************************************)
EXTENDS FiniteSets

CONSTANTS Inits, Generators,  \* runs of openldap-init and openldap-generate
          Versions,           \* what the schema file can contain
          Valid,              \* schema-only LDIF that validate_schema accepts
          Supporting,         \* defines what the definition's extensions use
          None, Other         \* no such path, and what somebody else put there

ASSUME PublicationAssumption ==
  /\ Inits \cap Generators = {} /\ Supporting \subseteq Valid /\ Valid \subseteq Versions
  /\ None \notin Versions \cup Inits \cup Generators
  /\ Other \notin Versions \cup Inits \cup Generators \cup {None}

VARIABLES
  definition,  \* the path --output of openldap-init
  draft,       \* the temporary file of each of its runs
  output,      \* the path --output of openldap-generate
  staging,     \* the temporary directory of each of its runs
  schema,      \* content of the schema file
  extended,    \* the definition has extensions
  catalog,     \* schema content kept by parse_directory of each run
  pc           \* next step of each run

vars == <<definition, draft, output, staging, schema, extended, catalog, pc>>

Parts  == {"directory.ldif", "schema-00.ldif", "manifest.json", "manifest.json.minisig"}
Drafts == {"empty", "valid", "invalid"}

Staged(parts, content) == [kind |-> "snapshot", parts |-> parts, schema |-> content]
Snapshots == [kind : {"snapshot"}, parts : SUBSET Parts, schema : Versions \cup {None}]

\* What somebody else has put at the output path: an empty directory, or a
\* file, a symbolic link or a directory that is not empty.
Path(kind) == [kind |-> kind]
Occupied   == {Path("empty"), Path("other")}

ASSUME NoPathAssumption == None \notin Snapshots \cup Occupied \cup Drafts \cup {Other}

Labels == {"check", "write", "validate", "link", "close", "parse", "staging", "data",
           "schema", "manifest", "sign", "rename", "remove", "done", "failed", "interrupted"}

DraftTypes ==
  /\ definition \in Drafts \cup {None, Other} /\ draft \in [Inits -> Drafts \cup {None}]
SnapshotTypes ==
  /\ output \in Snapshots \cup Occupied \cup {None}
  /\ staging \in [Generators -> Snapshots \cup {None}]
SourceTypes ==
  /\ schema \in Versions /\ extended \in BOOLEAN
  /\ catalog \in [Generators -> Versions \cup {None}]

TypeOK ==
  /\ DraftTypes /\ SnapshotTypes /\ SourceTypes
  /\ pc \in [Inits \cup Generators -> Labels]

Init ==
  /\ definition = None /\ draft = [r \in Inits |-> None]
  /\ output = None /\ staging = [g \in Generators |-> None]
  /\ schema \in Versions /\ extended \in BOOLEAN
  /\ catalog = [g \in Generators |-> None]
  /\ pc = [r \in Inits \cup Generators |-> IF r \in Inits THEN "check" ELSE "parse"]

Goto(r, label) == pc' = [pc EXCEPT ![r] = label]

-----------------------------------------------------------------------------
(* initialize.py.                                                          *)

SnapshotSide == <<output, staging, schema, extended, catalog>>

CheckDefinition(r) ==
  /\ pc[r] = "check" /\ r \in Inits
  /\ IF definition = None
       THEN Goto(r, "write") /\ draft' = [draft EXCEPT ![r] = "empty"]
       ELSE Goto(r, "failed") /\ UNCHANGED draft
  /\ UNCHANGED <<definition, SnapshotSide>>

WriteDraft(r) ==
  /\ pc[r] = "write"
  /\ \E content \in {"valid", "invalid"} : draft' = [draft EXCEPT ![r] = content]
  /\ Goto(r, "validate")
  /\ UNCHANGED <<definition, SnapshotSide>>

\* Leaving the with statement removes the temporary file.
Close(r, label) == Goto(r, label) /\ draft' = [draft EXCEPT ![r] = None]

ValidateDraft(r) ==
  /\ pc[r] = "validate"
  /\ IF draft[r] = "valid"
       THEN Goto(r, "link") /\ UNCHANGED draft
       ELSE Close(r, "failed")
  /\ UNCHANGED <<definition, SnapshotSide>>

\* Variant: the file is renamed to its path, as by os.replace.
ReplaceDraft(r) ==
  /\ pc[r] = "link"
  /\ definition' = draft[r] /\ Close(r, "done")
  /\ UNCHANGED SnapshotSide

\* link(2) never replaces.
LinkDraft(r) ==
  /\ pc[r] = "link"
  /\ IF definition = None
       THEN definition' = draft[r] /\ Goto(r, "close") /\ UNCHANGED draft
       ELSE Close(r, "failed") /\ UNCHANGED definition
  /\ UNCHANGED SnapshotSide

CloseDraft(r) ==
  /\ pc[r] = "close" /\ Close(r, "done")
  /\ UNCHANGED <<definition, SnapshotSide>>

\* Any other failure, and SIGINT: an exception that leaves the with statement.
DraftFails(r) ==
  /\ pc[r] \in {"write", "validate", "link"} /\ r \in Inits
  /\ Close(r, "failed")
  /\ UNCHANGED <<definition, SnapshotSide>>

-----------------------------------------------------------------------------
(* main and generate_snapshot of generate.py.                              *)

DefinitionSide == <<definition, draft>>
Sources        == <<schema, extended>>

\* parse_directory.  With extensions, the schema is read, validated and kept.
ParseDirectory(g) ==
  /\ pc[g] = "parse"
  /\ \/ /\ extended => schema \in Supporting
        /\ catalog' = [catalog EXCEPT ![g] = IF extended THEN schema ELSE None]
        /\ Goto(g, "check")
     \/ Goto(g, "failed") /\ UNCHANGED catalog
  /\ UNCHANGED <<DefinitionSide, output, staging, Sources>>

CheckOutput(g) ==
  /\ pc[g] = "check" /\ g \in Generators
  /\ Goto(g, IF output = None THEN "staging" ELSE "failed")
  /\ UNCHANGED <<DefinitionSide, output, staging, Sources, catalog>>

\* mkdtemp gives each run a directory of its own, or fails before the try statement.
MakeStaging(g) ==
  /\ pc[g] = "staging"
  /\ \/ Goto(g, "data") /\ staging' = [staging EXCEPT ![g] = Staged({}, None)]
     \/ Goto(g, "failed") /\ UNCHANGED staging
  /\ UNCHANGED <<DefinitionSide, output, Sources, catalog>>

AddPart(g, part, label) ==
  /\ staging' = [staging EXCEPT ![g].parts = @ \cup {part}]
  /\ Goto(g, label)
  /\ UNCHANGED <<DefinitionSide, output, Sources, catalog>>

WriteData(g) == pc[g] = "data" /\ AddPart(g, "directory.ldif", "schema")

\* Variant: the schema file is read again.
ReadSchema(g) == schema

\* What was validated is published; a definition without extensions has the
\* schema read here.
SchemaContent(g) == IF catalog[g] # None THEN catalog[g] ELSE schema

WriteSchema(g) ==
  /\ pc[g] = "schema"
  /\ IF SchemaContent(g) \in Valid
       THEN /\ staging' = [staging EXCEPT ![g].parts = @ \cup {"schema-00.ldif"},
                                          ![g].schema = SchemaContent(g)]
            /\ Goto(g, "manifest")
       ELSE Goto(g, "remove") /\ UNCHANGED staging
  /\ UNCHANGED <<DefinitionSide, output, Sources, catalog>>

WriteManifest(g) == pc[g] = "manifest" /\ AddPart(g, "manifest.json", "sign")

\* Variant: the result of minisign is not looked at.
SignUnchecked(g) ==
  /\ pc[g] = "sign"
  /\ Goto(g, "rename") /\ UNCHANGED staging
  /\ UNCHANGED <<DefinitionSide, output, Sources, catalog>>

\* sign_manifest; GenerationFails also stands for an error of minisign.
SignManifest(g) == pc[g] = "sign" /\ AddPart(g, "manifest.json.minisig", "rename")

\* rename(2) of a directory replaces an empty directory and nothing else.
RenameStaging(g) ==
  /\ pc[g] = "rename"
  /\ IF output \in {None, Path("empty")}
       THEN /\ output' = staging[g] /\ staging' = [staging EXCEPT ![g] = None]
            /\ Goto(g, "done")
       ELSE Goto(g, "remove") /\ UNCHANGED <<output, staging>>
  /\ UNCHANGED <<DefinitionSide, Sources, catalog>>

\* Any Exception in the try statement.
GenerationFails(g) ==
  /\ pc[g] \in {"data", "schema", "manifest", "sign", "rename"}
  /\ Goto(g, "remove")
  /\ UNCHANGED <<DefinitionSide, output, staging, Sources, catalog>>

\* Variant: the exception is reported and the directory stays.
KeepStaging(g) ==
  /\ pc[g] = "remove" /\ Goto(g, "failed")
  /\ UNCHANGED <<DefinitionSide, output, staging, Sources, catalog>>

RemoveStaging(g) ==
  /\ pc[g] = "remove" /\ Goto(g, "failed")
  /\ staging' = [staging EXCEPT ![g] = None]
  /\ UNCHANGED <<DefinitionSide, output, Sources, catalog>>

-----------------------------------------------------------------------------
(* The surroundings.                                                       *)

\* SIGTERM and SIGKILL; KeyboardInterrupt is no Exception, so that SIGINT
\* leaves the staging directory of a generator behind too.
Interrupt(r) ==
  /\ pc[r] \notin {"done", "failed", "interrupted"} /\ Goto(r, "interrupted")
  /\ UNCHANGED <<DefinitionSide, output, staging, Sources, catalog>>

CreateDefinition ==
  /\ definition = None /\ definition' = Other
  /\ UNCHANGED <<draft, SnapshotSide, pc>>

CreateOutput ==
  /\ output = None /\ output' \in Occupied
  /\ UNCHANGED <<DefinitionSide, staging, Sources, catalog, pc>>

EditSchema ==
  /\ schema' \in Versions \ {schema}
  /\ UNCHANGED <<DefinitionSide, output, staging, extended, catalog, pc>>

Initialize(r) == \/ CheckDefinition(r) \/ WriteDraft(r) \/ ValidateDraft(r) \/ LinkDraft(r)
                 \/ CloseDraft(r) \/ DraftFails(r)

Generate(g) == \/ ParseDirectory(g) \/ CheckOutput(g) \/ MakeStaging(g) \/ WriteData(g)
               \/ WriteSchema(g) \/ WriteManifest(g) \/ SignManifest(g) \/ RenameStaging(g)
               \/ GenerationFails(g) \/ RemoveStaging(g)

Next == \/ \E r \in Inits : Initialize(r)
        \/ \E g \in Generators : Generate(g)
        \/ \E r \in Inits \cup Generators : Interrupt(r)
        \/ CreateDefinition \/ CreateOutput \/ EditSchema

Spec == Init /\ [][Next]_vars

-----------------------------------------------------------------------------
\* What stands at a path is complete whenever it can be seen: a definition
\* that was validated, a snapshot with every file and its signature.
PublishedComplete ==
  /\ definition \in {None, Other, "valid"}
  /\ output \in Snapshots => output.parts = Parts

Fitting(content) == content \in (IF extended THEN Supporting ELSE Valid)

\* The schema of a published snapshot is valid and defines what the
\* extensions of the definition use, whatever was edited during the run.
PublishedSchemaSupports ==
  output \in Snapshots => Fitting(output.schema)

\* A run that was not interrupted leaves no temporary file or directory.
NothingLeft ==
  /\ \A r \in Inits : pc[r] \in {"done", "failed"} => draft[r] = None
  /\ \A g \in Generators : pc[g] \in {"done", "failed"} => staging[g] = None

\* A definition or a snapshot that stands at its path is never replaced, nor
\* is anything that somebody else has put there except an empty directory,
\* however the runs interleave between their check of the path and its use.
NeverReplaced ==
  [][/\ definition # None => definition' = definition
     /\ output \notin {None, Path("empty")} => output' = output]_vars

\* What a run of openldap-init has in its temporary file at each step.
DraftOf(r) ==
  /\ pc[r] \in {"check", "done", "failed"} => draft[r] = None
  /\ pc[r] = "link" => draft[r] = "valid"

\* What a run of openldap-generate has kept and staged at each step.
StagingOf(g) ==
  /\ pc[g] \in {"parse", "check", "staging", "done", "failed"} => staging[g] = None
  /\ pc[g] \in {"data", "schema", "manifest", "sign", "rename", "remove"} =>
       staging[g] \in Snapshots
  /\ pc[g] \in {"check", "staging", "data", "schema"} =>
       catalog[g] \in (IF extended THEN Supporting ELSE {None})
  /\ pc[g] = "schema" => staging[g].parts = {"directory.ldif"}
  /\ pc[g] = "manifest" => staging[g].parts = {"directory.ldif", "schema-00.ldif"}
  /\ pc[g] = "sign" => staging[g].parts = Parts \ {"manifest.json.minisig"}
  /\ pc[g] = "rename" => staging[g].parts = Parts
  /\ pc[g] \in {"manifest", "sign", "rename"} => Fitting(staging[g].schema)
  /\ pc[g] = "data" => staging[g].parts = {}

\* Every run is where its files say it is, and what is published came from a
\* run at its last step: the inductive invariant.
Inv ==
  /\ TypeOK
  /\ \A r \in Inits : DraftOf(r)
  /\ \A g \in Generators : StagingOf(g)
  /\ PublishedComplete /\ PublishedSchemaSupports
=============================================================================
