--------------------------- MODULE SchemaExtensions ---------------------------
(***************************************************************************)
(* generator/extensions.py as the generator runs it for one entry: both    *)
(* lists are parsed, then SchemaCatalog.validate goes through the          *)
(* attributes and after them through the classes, and only what has passed *)
(* both is merged.                                                         *)
(***************************************************************************)
EXTENDS AttributeExtensions, ClassExtensions

extension_vars == <<vars, class_vars>>

ExtensionInit == Init /\ ClassInit

ParseExtensions ==
  \/ parse_extensions /\ UNCHANGED class_vars
  \/ pc = "next" /\ parse_classes /\ UNCHANGED vars

ValidateAttributes ==
  /\ class_pc = "next" /\ UNCHANGED class_vars
  /\ validate \/ attribute_lineage \/ Check

ValidateClasses ==
  /\ pc = "next" /\ index > Len(attributes) /\ UNCHANGED vars
  /\ validate_class \/ Visit \/ WalkEnds \/ AcceptClasses

MergeValidated == class_pc = "accepted" /\ merge /\ UNCHANGED class_vars

Ended == pc = "merged" \/ pc = "refused" \/ class_pc = "refused"
Rest == Ended /\ UNCHANGED extension_vars

ExtensionNext ==
  ParseExtensions \/ ValidateAttributes \/ ValidateClasses \/ MergeValidated \/ Rest

-----------------------------------------------------------------------------
(* Properties.                                                             *)

\* The verdict of the loops is that of the definition: an entry is merged
\* exactly if both of its lists are admissible, whatever the order of the walks,
\* so that neither loop hides what the other finds, the reserved names of one
\* kind of entry do not spill over to another, and no admissible list is lost to
\* the bounds.
MergedIfAdmissible == Ended => (pc = "merged" <=> Admissible /\ AdmissibleClasses)
=============================================================================
