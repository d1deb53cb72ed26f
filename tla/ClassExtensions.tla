--------------------------- MODULE ClassExtensions ---------------------------
(***************************************************************************)
(* generator/extensions.py: the object classes that a definition adds to   *)
(* an entry, and the walk through their superiors.  The walk keeps a list  *)
(* of names to look at, each with the classes on its path, and gives up    *)
(* after MaxVisits names, so that a path is counted as often as it occurs. *)
(* Names stand for case-folded names and OIDs; several may name one class. *)
(***************************************************************************)
EXTENDS Integers, Sequences, FiniteSets

CONSTANTS ClassNames,    \* names of object classes
          Classes,       \* their OIDs
          NoClass,       \* no such class
          ClassOf,       \* SubSchema.get_obj: the class that a name names
          Kind,          \* "structural", "auxiliary" or "abstract"
          Extensible,    \* the OID of extensibleObject
          Base,          \* the classes of the generated entry
          ClassSchemas,  \* what schema files may say: the superiors of each class
          ClassRequests, \* the lists of classes that a definition may ask for
          MaxVisits,     \* 128
          MaxClasses     \* 16

ASSUME ClassExtensionsAssumption ==
  /\ ClassOf \in [ClassNames -> Classes \cup {NoClass}] /\ NoClass \notin Classes
  /\ IsFiniteSet(Classes)
  /\ Kind \in [Classes -> {"structural", "auxiliary", "abstract"}]
  /\ \A schema \in ClassSchemas : schema \in [Classes -> Seq(ClassNames)]
  /\ \A list \in ClassRequests : list \in Seq(ClassNames)
  /\ Base \subseteq ClassNames
  /\ MaxVisits \in Nat /\ MaxClasses \in Nat

VARIABLES
  superiors,       \* the superiors of each class: the schema files
  object_classes,  \* what the definition asks for
  class_pc, class_index,
  seen_classes,    \* generated classes and those accepted so far
  pending, count,  \* validate_class_ancestors: names to look at, names looked at
  visited          \* history: what has passed the walk

class_input == <<superiors, object_classes>>
walk == <<pending, count, visited>>
class_vars == <<class_input, class_pc, class_index, seen_classes, walk>>

\* The branch is history, too: which superior of which leads to the name.
Pending == [name : ClassNames, ancestors : SUBSET Classes, branch : Seq(Nat)]

ClassTypeOK ==
  /\ superiors \in [Classes -> Seq(ClassNames)] /\ object_classes \in Seq(ClassNames)
  /\ class_pc \in {"parse", "next", "ancestors", "accepted", "refused"}
  /\ class_index \in Nat \ {0} /\ seen_classes \subseteq Classes \cup {NoClass}
  /\ pending \in Seq(Pending) /\ count \in Nat /\ visited \subseteq Pending

ClassInit ==
  /\ superiors \in ClassSchemas /\ object_classes \in ClassRequests
  /\ class_pc = "parse" /\ class_index = 1 /\ seen_classes = {ClassOf[name] : name \in Base}
  /\ pending = << >> /\ count = 0 /\ visited = {}

-----------------------------------------------------------------------------
RefuseClass == class_pc' = "refused" /\ UNCHANGED <<class_index, seen_classes, walk>>

RepeatsClass(list) == \E i, j \in DOMAIN list : i < j /\ list[i] = list[j]

parse_classes ==
  /\ class_pc = "parse" /\ UNCHANGED class_input
  /\ IF Len(object_classes) > MaxClasses \/ RepeatsClass(object_classes)
       THEN RefuseClass
       ELSE class_pc' = "next" /\ UNCHANGED <<class_index, seen_classes, walk>>

Addable(class) ==
  /\ class # NoClass /\ Kind[class] = "auxiliary" /\ class # Extensible /\ class \notin seen_classes

Root(i) == [name |-> object_classes[i], ancestors |-> {}, branch |-> <<i>>]

validate_class ==
  /\ class_pc = "next" /\ class_index <= Len(object_classes) /\ UNCHANGED class_input
  /\ LET name == object_classes[class_index] IN
     IF Addable(ClassOf[name])
       THEN /\ seen_classes' = seen_classes \cup {ClassOf[name]}
            /\ pending' = <<Root(class_index)>> /\ count' = 0
            /\ class_pc' = "ancestors" /\ UNCHANGED <<class_index, visited>>
       ELSE RefuseClass

AcceptClasses ==
  /\ class_pc = "next" /\ class_index > Len(object_classes)
  /\ class_pc' = "accepted" /\ UNCHANGED <<class_input, class_index, seen_classes, walk>>

\* A class that an extension may inherit from.
Inheritable(name) ==
  /\ ClassOf[name] # NoClass /\ ClassOf[name] # Extensible /\ Kind[ClassOf[name]] # "structural"

\* Variant: a class met before is a circle.
PassesOnce(item) ==
  Inheritable(item.name) /\ count < MaxVisits /\ \A other \in visited : other.name # item.name

Passes(item) ==
  Inheritable(item.name) /\ ClassOf[item.name] \notin item.ancestors /\ count < MaxVisits

Parents(item) ==
  LET class == ClassOf[item.name] IN
  [i \in DOMAIN superiors[class] |->
     [name |-> superiors[class][i], ancestors |-> item.ancestors \cup {class},
      branch |-> Append(item.branch, i)]]

\* pending.pop() and pending.extend().
PopExtend(list, more) == SubSeq(list, 1, Len(list) - 1) \o more

\* Variant: the superiors replace the list.
VisitLast ==
  /\ class_pc = "ancestors" /\ pending # << >> /\ UNCHANGED class_input
  /\ LET item == pending[Len(pending)] IN
     IF Passes(item)
       THEN /\ pending' = Parents(item) /\ count' = count + 1
            /\ visited' = visited \cup {item}
            /\ UNCHANGED <<class_pc, class_index, seen_classes>>
       ELSE RefuseClass

\* One round of the loop of validate_class_ancestors.
Visit ==
  /\ class_pc = "ancestors" /\ pending # << >> /\ UNCHANGED class_input
  /\ LET item == pending[Len(pending)] IN
     IF Passes(item)
       THEN /\ pending' = PopExtend(pending, Parents(item))
            /\ count' = count + 1 /\ visited' = visited \cup {item}
            /\ UNCHANGED <<class_pc, class_index, seen_classes>>
       ELSE RefuseClass

WalkEnds ==
  /\ class_pc = "ancestors" /\ pending = << >>
  /\ class_pc' = "next" /\ class_index' = class_index + 1
  /\ UNCHANGED <<class_input, seen_classes, walk>>

ClassNext == parse_classes \/ validate_class \/ AcceptClasses \/ Visit \/ WalkEnds
ClassSpec == ClassInit /\ [][ClassNext]_class_vars

-----------------------------------------------------------------------------
(* Properties.                                                             *)

\* The names an extension inherits from: the least set that holds its name and
\* the superiors of the classes that its members name.
ClosedUp(names) ==
  \A name \in names : ClassOf[name] # NoClass =>
    \A i \in DOMAIN superiors[ClassOf[name]] : superiors[ClassOf[name]][i] \in names
Lineage(name) ==
  LET closed == {names \in SUBSET ClassNames : name \in names /\ ClosedUp(names)}
  IN  {other \in ClassNames : \A names \in closed : other \in names}

\* No accepted class is, or inherits over any path from, a class that is
\* structural, unknown or extensibleObject (ARCHITECTURE.md, schema extensions).
NothingStructuralInherited ==
  class_pc = "accepted" =>
    \A i \in DOMAIN object_classes : \A name \in Lineage(object_classes[i]) : Inheritable(name)

Cyclic(name) ==
  \E other \in Lineage(name) : ClassOf[other] # NoClass /\
    \E i \in DOMAIN superiors[ClassOf[other]] : \E again \in Lineage(superiors[ClassOf[other]][i]) :
      ClassOf[again] = ClassOf[other]

\* The hierarchy above each request drawn as a tree: a name has a node for every
\* path to it.
Raised(node) ==
  LET class == ClassOf[node.name] IN
  IF class = NoClass THEN {}
  ELSE {[name |-> superiors[class][i], branch |-> Append(node.branch, i)] :
          i \in DOMAIN superiors[class]}
Level[depth \in Nat] ==
  IF depth = 0 THEN {[name |-> object_classes[i], branch |-> <<i>>] : i \in DOMAIN object_classes}
               ELSE UNION {Raised(node) : node \in Level[depth - 1]}
Tree(i) == {node \in UNION {Level[depth] : depth \in 0..Cardinality(Classes)} : node.branch[1] = i}

\* What a definition may ask for: no class twice, none of the generated ones, no
\* circle, and no more names than the bound when every path is counted.
Askable(i) ==
  LET class == ClassOf[object_classes[i]] IN
  /\ class # NoClass /\ Kind[class] = "auxiliary" /\ class # Extensible
  /\ \A name \in Base : ClassOf[name] # class
Unfolds(i) ==
  /\ \A name \in Lineage(object_classes[i]) : Inheritable(name)
  /\ ~Cyclic(object_classes[i]) /\ Cardinality(Tree(i)) <= MaxVisits

AdmissibleClasses ==
  /\ Len(object_classes) <= MaxClasses
  /\ \A i \in DOMAIN object_classes :
       /\ Askable(i) /\ Unfolds(i)
       /\ \A j \in DOMAIN object_classes : i # j => ClassOf[object_classes[j]] # ClassOf[object_classes[i]]

\* Why it holds: what passed the walk has its superiors among what
\* passed and what is pending.
Reached == visited \cup {pending[i] : i \in DOMAIN pending}
ClassInv ==
  /\ ClassTypeOK
  /\ \A item \in visited : Inheritable(item.name) /\ ClassOf[item.name] \notin item.ancestors
  /\ class_pc # "refused" => \A item \in visited :
       \A i \in DOMAIN superiors[ClassOf[item.name]] : Parents(item)[i] \in Reached
  /\ class_pc \in {"parse", "next", "accepted"} => pending = << >>
  /\ class_pc # "refused" => \A i \in DOMAIN object_classes :
       i < class_index \/ (i = class_index /\ class_pc = "ancestors") => Root(i) \in Reached
  /\ class_pc = "accepted" => class_index > Len(object_classes)
=============================================================================
