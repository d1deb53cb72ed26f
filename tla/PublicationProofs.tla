-------------------------- MODULE PublicationProofs --------------------------
(***************************************************************************)
(* Proofs about Publication: what is published is complete, fits the       *)
(* definition and is never replaced, for any number of runs.               *)
(***************************************************************************)
EXTENDS Publication, TLAPS

\* Before any run has started nothing is staged and nothing is published.
LEMMA InitialInv == Init => Inv
<1> SUFFICES ASSUME Init PROVE Inv
  OBVIOUS
<1> USE DEF Init
<1>1. TypeOK
  BY DEF TypeOK, DraftTypes, SnapshotTypes, SourceTypes, Labels
<1>2. \A r \in Inits : DraftOf(r)
  BY DEF DraftOf
<1>3. \A g \in Generators : StagingOf(g)
  BY PublicationAssumption DEF StagingOf
<1>4. PublishedComplete /\ PublishedSchemaSupports
  BY NoPathAssumption DEF PublishedComplete, PublishedSchemaSupports
<1> QED
  BY <1>1, <1>2, <1>3, <1>4 DEF Inv

\* A step of openldap-init moves one draft and can publish a valid one; the
\* snapshots and their runs are left alone.
LEMMA InitializeStep ==
  ASSUME Inv, NEW r \in Inits, Initialize(r)
  PROVE  Inv'
<1> USE DEF Inv, TypeOK, DraftTypes, Close, Goto, Drafts, Labels
<1>1. UNCHANGED SnapshotSide
  BY DEF Initialize, CheckDefinition, WriteDraft, ValidateDraft, LinkDraft, CloseDraft,
         DraftFails, SnapshotSide
<1>2. \A s \in (Inits \cup Generators) \ {r} : pc'[s] = pc[s]
  BY DEF Initialize, CheckDefinition, WriteDraft, ValidateDraft, LinkDraft, CloseDraft,
         DraftFails
<1>3. \A s \in Inits \ {r} : draft'[s] = draft[s]
  BY DEF Initialize, CheckDefinition, WriteDraft, ValidateDraft, LinkDraft, CloseDraft,
         DraftFails
<1>4. /\ TypeOK' /\ DraftOf(r)'
      /\ definition' \in {None, Other, "valid"}
  <2> USE DEF DraftOf, PublishedComplete
  <2>0. SnapshotTypes' /\ SourceTypes'
    BY <1>1 DEF SnapshotSide, SnapshotTypes, SourceTypes
  <2>1. CASE CheckDefinition(r)
    BY <2>0, <2>1 DEF CheckDefinition
  <2>2. CASE WriteDraft(r)
    BY <2>0, <2>2 DEF WriteDraft
  <2>3. CASE ValidateDraft(r)
    BY <2>0, <2>3 DEF ValidateDraft
  <2>4. CASE LinkDraft(r)
    BY <2>0, <2>4 DEF LinkDraft
  <2>5. CASE CloseDraft(r)
    BY <2>0, <2>5 DEF CloseDraft
  <2>6. CASE DraftFails(r)
    BY <2>0, <2>6 DEF DraftFails
  <2> QED
    BY <2>1, <2>2, <2>3, <2>4, <2>5, <2>6 DEF Initialize
<1>5. \A s \in Inits : DraftOf(s)'
  BY <1>2, <1>3, <1>4 DEF DraftOf
<1>6. \A g \in Generators : StagingOf(g)'
  BY <1>1, <1>2, PublicationAssumption DEF StagingOf, SnapshotSide, Fitting
<1>7. PublishedComplete' /\ PublishedSchemaSupports'
  BY <1>1, <1>4 DEF PublishedComplete, PublishedSchemaSupports, SnapshotSide, Fitting
<1> QED
  BY <1>4, <1>5, <1>6, <1>7

\* A step of openldap-generate stages one part more, or publishes or removes
\* what it has staged; the drafts and the other runs are left alone.
LEMMA GenerateStep ==
  ASSUME Inv, NEW g \in Generators, Generate(g)
  PROVE  Inv'
<1> USE DEF Inv, TypeOK, SnapshotTypes, SourceTypes, Goto, Labels
<1>1. UNCHANGED DefinitionSide /\ UNCHANGED Sources
  BY DEF Generate, ParseDirectory, CheckOutput, MakeStaging, WriteData, WriteSchema,
         WriteManifest, SignManifest, RenameStaging, GenerationFails, RemoveStaging,
         AddPart, Sources, DefinitionSide
<1>2. /\ \A s \in (Inits \cup Generators) \ {g} : pc'[s] = pc[s]
      /\ \A s \in Generators \ {g} : staging'[s] = staging[s] /\ catalog'[s] = catalog[s]
  BY DEF Generate, ParseDirectory, CheckOutput, MakeStaging, WriteData, WriteSchema,
         WriteManifest, SignManifest, RenameStaging, GenerationFails, RemoveStaging, AddPart
<1>3. /\ TypeOK' /\ StagingOf(g)'
      /\ output' \in Snapshots => output'.parts = Parts /\ Fitting(output'.schema)
  <2> USE <1>1 DEF StagingOf, Fitting, Sources, DefinitionSide
  <2>0. DraftTypes' /\ StagingOf(g) /\ (output \in Snapshots => output.parts = Parts /\ Fitting(output.schema))
    BY DEF DraftTypes, PublishedComplete, PublishedSchemaSupports
  <2>1. CASE ParseDirectory(g)
    BY <2>0, <2>1, PublicationAssumption DEF ParseDirectory
  <2>2. CASE CheckOutput(g)
    BY <2>0, <2>2 DEF CheckOutput
  <2>3. CASE MakeStaging(g)
    BY <2>0, <2>3 DEF MakeStaging, Staged, Snapshots
  <2>4. CASE WriteData(g)
    BY <2>0, <2>4 DEF WriteData, AddPart, Snapshots, Parts
  <2>5. CASE WriteSchema(g)
    BY <2>0, <2>5, PublicationAssumption DEF WriteSchema, SchemaContent, Snapshots, Parts
  <2>6. CASE WriteManifest(g)
    BY <2>0, <2>6 DEF WriteManifest, AddPart, Snapshots, Parts
  <2>7. CASE SignManifest(g)
    BY <2>0, <2>7 DEF SignManifest, AddPart, Snapshots, Parts
  <2>8. CASE RenameStaging(g)
    BY <2>0, <2>8 DEF RenameStaging
  <2>9. CASE GenerationFails(g)
    BY <2>0, <2>9 DEF GenerationFails
  <2>10. CASE RemoveStaging(g)
    BY <2>0, <2>10 DEF RemoveStaging
  <2> QED
    BY <2>1, <2>2, <2>3, <2>4, <2>5, <2>6, <2>7, <2>8, <2>9, <2>10 DEF Generate
<1>4. \A s \in Generators : StagingOf(s)'
  BY <1>1, <1>2, <1>3 DEF StagingOf, Fitting, Sources
<1>5. \A r \in Inits : DraftOf(r)'
  BY <1>1, <1>2, PublicationAssumption DEF DraftOf, DefinitionSide
<1>6. PublishedComplete' /\ PublishedSchemaSupports'
  BY <1>1, <1>3 DEF PublishedComplete, PublishedSchemaSupports, DefinitionSide, Sources, Fitting
<1> QED
  BY <1>3, <1>4, <1>5, <1>6

\* An interrupted run keeps what it has, and the surroundings neither publish
\* nor touch what belongs to a run.
LEMMA SurroundingsStep ==
  ASSUME Inv,
         \/ \E r \in Inits \cup Generators : Interrupt(r)
         \/ CreateDefinition \/ CreateOutput \/ EditSchema
  PROVE  Inv'
<1> USE DEF Inv, TypeOK, DraftTypes, SnapshotTypes, SourceTypes, DraftOf, StagingOf, Fitting,
      PublishedComplete, PublishedSchemaSupports
<1>1. CASE \E r \in Inits \cup Generators : Interrupt(r)
  <2> PICK r \in Inits \cup Generators : Interrupt(r)
    BY <1>1
  <2>1. UNCHANGED <<definition, draft, output, staging, schema, extended, catalog>>
    BY DEF Interrupt, DefinitionSide, Sources
  <2>2. pc' \in [Inits \cup Generators -> Labels]
    BY DEF Interrupt, Goto, Labels
  <2>3. pc'[r] = "interrupted" /\ \A s \in (Inits \cup Generators) \ {r} : pc'[s] = pc[s]
    BY DEF Interrupt, Goto
  <2>4. \A s \in Inits : DraftOf(s)'
    BY <2>1, <2>3
  <2>5. \A g \in Generators : StagingOf(g)'
    BY <2>1, <2>3
  <2> QED
    BY <2>1, <2>2, <2>4, <2>5
<1>2. CASE CreateDefinition
  BY <1>2 DEF CreateDefinition, SnapshotSide
<1>3. CASE CreateOutput
  <2>1. output' \notin Snapshots
    BY <1>3 DEF CreateOutput, Occupied, Path, Snapshots
  <2> QED
    BY <1>3, <2>1 DEF CreateOutput, DefinitionSide, Sources
<1>4. CASE EditSchema
  BY <1>4 DEF EditSchema, DefinitionSide
<1> QED
  BY <1>1, <1>2, <1>3, <1>4

\* At every moment each run has staged exactly what its step says, and what
\* stands at the two paths is complete, whatever else happens to them.
THEOREM Invariance == Spec => []Inv
<1>1. Inv /\ [Next]_vars => Inv'
  <2> SUFFICES ASSUME Inv, [Next]_vars PROVE Inv'
    OBVIOUS
  <2>1. CASE \E r \in Inits : Initialize(r)
    BY <2>1, InitializeStep
  <2>2. CASE \E g \in Generators : Generate(g)
    BY <2>2, GenerateStep
  <2>3. CASE UNCHANGED vars
    BY <2>3 DEF vars, Inv, TypeOK, DraftTypes, SnapshotTypes, SourceTypes, DraftOf, StagingOf,
           Fitting, PublishedComplete, PublishedSchemaSupports
  <2> QED
    BY <2>1, <2>2, <2>3, SurroundingsStep DEF Next
<1> QED
  BY <1>1, InitialInv, PTL DEF Spec

\* A definition at its path was validated and a snapshot at its path has every
\* file and its signature (initialize.py links last, main renames last).
THEOREM CompleteOnceVisible == Spec => []PublishedComplete
<1>1. Inv => PublishedComplete
  BY DEF Inv
<1> QED
  BY <1>1, Invariance, PTL

\* Edits of the schema file during a run cannot reach a published snapshot,
\* because generate_snapshot takes what validate_extensions has kept.
THEOREM SchemaSupports == Spec => []PublishedSchemaSupports
<1>1. Inv => PublishedSchemaSupports
  BY DEF Inv
<1> QED
  BY <1>1, Invariance, PTL

\* A run that has ended without an interrupt has no temporary file left.
THEOREM CleansUp == Spec => []NothingLeft
<1>1. Inv => NothingLeft
  BY DEF Inv, DraftOf, StagingOf, NothingLeft
<1> QED
  BY <1>1, Invariance, PTL

\* Only LinkDraft and RenameStaging write the two paths, and neither replaces
\* a definition, a snapshot or somebody else's file.
THEOREM FirstPublisherWins == Spec => NeverReplaced
<1> DEFINE Kept == /\ definition # None => definition' = definition
                   /\ output \notin {None, Path("empty")} => output' = output
<1>1. [Next]_vars => Kept
  <2> SUFFICES ASSUME [Next]_vars PROVE Kept
    OBVIOUS
  <2>1. CASE \E r \in Inits : Initialize(r)
    BY <2>1 DEF Initialize, CheckDefinition, WriteDraft, ValidateDraft, LinkDraft, CloseDraft,
           DraftFails, Close, SnapshotSide
  <2>2. CASE \E g \in Generators : Generate(g)
    BY <2>2 DEF Generate, ParseDirectory, CheckOutput, MakeStaging, WriteData, WriteSchema,
           WriteManifest, SignManifest, RenameStaging, GenerationFails, RemoveStaging,
           AddPart, DefinitionSide
  <2>3. CASE \E r \in Inits \cup Generators : Interrupt(r)
    BY <2>3 DEF Interrupt, DefinitionSide
  <2>4. CASE CreateDefinition \/ CreateOutput \/ EditSchema
    BY <2>4 DEF CreateDefinition, CreateOutput, EditSchema, DefinitionSide, SnapshotSide
  <2>5. CASE UNCHANGED vars
    BY <2>5 DEF vars
  <2> QED
    BY <2>1, <2>2, <2>3, <2>4, <2>5 DEF Next
<1> QED
  BY <1>1, PTL DEF Spec, NeverReplaced
=============================================================================
