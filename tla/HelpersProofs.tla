---------------------------- MODULE HelpersProofs ----------------------------
(***************************************************************************)
(* Proofs about the two packages of Helpers: the condition lists,          *)
(* for any types and any number of updates, and the image rules, for any   *)
(* version sets, versions and images users write.                          *)
(***************************************************************************)
EXTENDS Helpers, TLAPS

-----------------------------------------------------------------------------
\* Condition lists.

\* The list after an update: appended to, or replaced at the position of the
\* type, the only one.
LEMMA AfterEffect ==
    ASSUME NEW list \in Seq(Condition), NEW type \in Types, NEW status \in Statuses,
           \A i, j \in DOMAIN list : list[i].type = list[j].type => i = j,
           now \in Nat
    PROVE  \E new \in Condition :
             /\ new.type = type /\ new.status = status
             /\ \/ /\ \A i \in DOMAIN list : list[i].type # type
                   /\ After(list, type, status) = Append(list, new)
                \/ \E first \in DOMAIN list :
                     /\ list[first].type = type
                     /\ After(list, type, status) = [list EXCEPT ![first] = new]
<1> DEFINE new == [type |-> type, status |-> status, lastTransitionTime |-> now]
           P == Positions(list, type)
           first == CHOOSE i \in P : \A j \in P : i <= j
<1>1. new \in Condition /\ new.type = type /\ new.status = status
  BY DEF Condition
<1>2. CASE P = {}
  BY <1>1, <1>2 DEF After, Positions
<1>3. CASE P # {}
  <2>1. P \subseteq Nat
    BY DEF Positions
  <2>2. \E i \in P : \A j \in P : i <= j
    BY <1>3, <2>1 DEF Positions
  <2>3. first \in P
    BY <2>2
  <2>4. After(list, type, status) = [list EXCEPT ![first] = new]
    BY <1>3 DEF After
  <2>5. QED
    BY <1>1, <2>3, <2>4 DEF Positions
<1>4. QED
  BY <1>2, <1>3

Inv == TypeOK /\ OneEntryPerType

LEMMA AfterKeeps ==
    ASSUME NEW type \in Types, NEW status \in Statuses, Inv,
           conditions' = After(conditions, type, status)
    PROVE  conditions' \in Seq(Condition) /\ OneEntryPerType'
<1> USE DEF Inv
<1>1. conditions \in Seq(Condition) /\ now \in Nat
  BY TimeAssumption DEF TypeOK
<1>2. PICK new \in Condition :
        /\ new.type = type
        /\ \/ /\ \A i \in DOMAIN conditions : conditions[i].type # type
              /\ conditions' = Append(conditions, new)
           \/ \E first \in DOMAIN conditions :
                /\ conditions[first].type = type
                /\ conditions' = [conditions EXCEPT ![first] = new]
  BY <1>1, AfterEffect DEF OneEntryPerType
<1>3. CASE /\ \A i \in DOMAIN conditions : conditions[i].type # type
           /\ conditions' = Append(conditions, new)
  <2>1. conditions' \in Seq(Condition)
    BY <1>1, <1>3
  <2>2. ASSUME NEW i \in DOMAIN conditions', NEW j \in DOMAIN conditions',
               conditions'[i].type = conditions'[j].type
        PROVE  i = j
    <3>1. \A k \in DOMAIN conditions' :
            \/ k \in DOMAIN conditions /\ conditions'[k] = conditions[k]
            \/ k = Len(conditions) + 1 /\ conditions'[k] = new
      BY <1>1, <1>3
    <3>2. QED
      BY <1>2, <1>3, <2>2, <3>1 DEF OneEntryPerType
  <2>3. QED
    BY <2>1, <2>2 DEF OneEntryPerType
<1>4. ASSUME NEW first \in DOMAIN conditions,
             conditions[first].type = type,
             conditions' = [conditions EXCEPT ![first] = new]
      PROVE  conditions' \in Seq(Condition) /\ OneEntryPerType'
  <2>1. conditions' \in Seq(Condition) /\ DOMAIN conditions' = DOMAIN conditions
    BY <1>1, <1>4
  <2>2. \A k \in DOMAIN conditions : conditions'[k].type = conditions[k].type
    BY <1>1, <1>2, <1>4
  <2>3. QED
    BY <2>1, <2>2 DEF OneEntryPerType
<1>5. QED
  BY <1>2, <1>3, <1>4

LEMMA InvInit == Init => Inv
  BY TimeAssumption DEF Init, Inv, TypeOK, OneEntryPerType

LEMMA InvNext == Inv /\ [Next]_vars => Inv'
<1> SUFFICES ASSUME Inv, [Next]_vars PROVE Inv'
  OBVIOUS
<1>1. ASSUME NEW type \in Types, NEW status \in Statuses, SetCondition(type, status)
      PROVE  Inv'
  BY <1>1, AfterKeeps DEF SetCondition, Inv, TypeOK
<1>2. CASE Tick
  BY <1>2, TimeAssumption DEF Tick, Inv, TypeOK, OneEntryPerType
<1>3. CASE UNCHANGED vars
  BY <1>3 DEF vars, Inv, TypeOK, OneEntryPerType
<1>4. QED
  BY <1>1, <1>2, <1>3 DEF Next

\* However often the conditions are set, and for any types, the list has one
\* entry per type (conditions.go:31-61).
THEOREM UniqueTypes == Spec => []OneEntryPerType
<1>1. Inv => OneEntryPerType
  BY DEF Inv
<1>2. QED
  BY <1>1, InvInit, InvNext, PTL DEF Spec

\* With one entry per type, the condition of a type is the one there is.
LEMMA TheCondition ==
    ASSUME NEW list \in Seq(Condition), NEW type,
           \A i, j \in DOMAIN list : list[i].type = list[j].type => i = j
    PROVE  /\ \A i \in DOMAIN list : list[i].type = type => GetCondition(list, type) = {list[i]}
           /\ (\A i \in DOMAIN list : list[i].type # type) => GetCondition(list, type) = {}
<1>1. ASSUME NEW i \in DOMAIN list, list[i].type = type
      PROVE  GetCondition(list, type) = {list[i]}
  <2>1. Positions(list, type) = {i}
    BY <1>1 DEF Positions
  <2>2. i <= i
    BY <1>1
  <2>3. QED
    BY <2>1, <2>2 DEF GetCondition
<1>2. ASSUME \A i \in DOMAIN list : list[i].type # type
      PROVE  GetCondition(list, type) = {}
  BY <1>2 DEF GetCondition, Positions
<1>3. QED
  BY <1>1, <1>2

\* What a reader of the list sees of a type.
Reads(list, type, status) ==
    \/ status = "Unset" /\ \A i \in DOMAIN list : list[i].type # type
    \/ \E i \in DOMAIN list : list[i].type = type /\ list[i].status = status

ReaderSeesStatus == \A type : Reads(conditions, type, StatusOf(type))

LEMMA StatusReads == Inv => ReaderSeesStatus
<1> SUFFICES ASSUME Inv, NEW type
             PROVE  Reads(conditions, type, StatusOf(type))
  BY DEF ReaderSeesStatus
<1>1. conditions \in Seq(Condition) /\ OneEntryPerType
  BY DEF Inv, TypeOK
<1>2. CASE \A i \in DOMAIN conditions : conditions[i].type # type
  <2>1. GetCondition(conditions, type) = {}
    BY <1>1, <1>2, TheCondition DEF OneEntryPerType
  <2>2. QED
    BY <1>2, <2>1 DEF StatusOf, Reads
<1>3. ASSUME NEW i \in DOMAIN conditions, conditions[i].type = type
      PROVE  Reads(conditions, type, StatusOf(type))
  <2>1. GetCondition(conditions, type) = {conditions[i]}
    BY <1>1, <1>3, TheCondition DEF OneEntryPerType
  <2>2. StatusOf(type) = conditions[i].status
    BY <2>1 DEF StatusOf
  <2>3. QED
    BY <1>3, <2>2 DEF Reads
<1>4. QED
  BY <1>2, <1>3

\* A reader sees one status.
LEMMA ReadsOnce ==
    ASSUME NEW list \in Seq(Condition), NEW type, NEW a, NEW b,
           \A i, j \in DOMAIN list : list[i].type = list[j].type => i = j,
           Reads(list, type, a), Reads(list, type, b)
    PROVE  a = b
  BY DEF Reads

LEMMA SetReads ==
    ASSUME Inv, NEW type \in Types, NEW status \in Statuses, SetCondition(type, status),
           NEW t, NEW old, Reads(conditions, t, old)
    PROVE  Reads(conditions', t, IF t = type THEN status ELSE old)
<1>1. conditions \in Seq(Condition) /\ now \in Nat /\ OneEntryPerType
  BY TimeAssumption DEF Inv, TypeOK
<1>2. PICK new \in Condition :
        /\ new.type = type /\ new.status = status
        /\ \/ /\ \A i \in DOMAIN conditions : conditions[i].type # type
              /\ conditions' = Append(conditions, new)
           \/ \E first \in DOMAIN conditions :
                /\ conditions[first].type = type
                /\ conditions' = [conditions EXCEPT ![first] = new]
  BY <1>1, AfterEffect DEF OneEntryPerType, SetCondition
<1>3. CASE conditions' = Append(conditions, new)
  <2>1. /\ DOMAIN conditions' = DOMAIN conditions \cup {Len(conditions) + 1}
        /\ \A i \in DOMAIN conditions : conditions'[i] = conditions[i]
        /\ conditions'[Len(conditions) + 1] = new
    BY <1>1, <1>3
  <2>2. QED
    BY <1>2, <2>1 DEF Reads
<1>4. ASSUME NEW first \in DOMAIN conditions, conditions[first].type = type,
             conditions' = [conditions EXCEPT ![first] = new]
      PROVE  Reads(conditions', t, IF t = type THEN status ELSE old)
  <2>1. /\ DOMAIN conditions' = DOMAIN conditions
        /\ \A i \in DOMAIN conditions : i # first => conditions'[i] = conditions[i]
        /\ conditions'[first] = new
    BY <1>1, <1>4
  <2>2. QED
    BY <1>2, <1>4, <2>1 DEF Reads
<1>5. QED
  BY <1>2, <1>3, <1>4

\* Setting a condition sets that one and no other, as far as a reader can see.
THEOREM OneTypeSet == Spec => SetsOneType
<1>1. Inv /\ [Next]_vars => [\E t \in Types, s \in Statuses : Map' = [Map EXCEPT ![t] = s]]_Map
  <2> SUFFICES ASSUME Inv, [Next]_vars
               PROVE  [\E t \in Types, s \in Statuses : Map' = [Map EXCEPT ![t] = s]]_Map
    OBVIOUS
  <2>1. ASSUME NEW type \in Types, NEW status \in Statuses, SetCondition(type, status)
        PROVE  Map' = [Map EXCEPT ![type] = status]
    <3>1. Inv'
      BY InvNext
    <3>2. ReaderSeesStatus'
      BY <3>1, StatusReads, PTL
    <3>3. conditions' \in Seq(Condition) /\ OneEntryPerType'
      BY <3>1 DEF Inv, TypeOK
    <3>4. ASSUME NEW t
          PROVE  StatusOf(t)' = IF t = type THEN status ELSE StatusOf(t)
      <4>1. Reads(conditions', t, IF t = type THEN status ELSE StatusOf(t))
        BY <2>1, StatusReads, SetReads DEF ReaderSeesStatus
      <4>2. Reads(conditions', t, StatusOf(t)')
        BY <3>2 DEF ReaderSeesStatus
      <4>3. QED
        BY <3>3, <4>1, <4>2, ReadsOnce DEF OneEntryPerType
    <3>5. QED
      BY <3>4 DEF Map
  <2>2. CASE UNCHANGED conditions
    BY <2>2 DEF Map, StatusOf
  <2>3. QED
    BY <2>1, <2>2 DEF Next, Tick, vars
<1>2. QED
  BY <1>1, InvInit, InvNext, PTL DEF Spec, SetsOneType

-----------------------------------------------------------------------------
\* Image rules.

\* What has been built is what the rules build of the overrides.
Built ==
    \/ overrides = {} /\ built.accepted = FALSE
    \/ \E o : overrides = {o} /\ built = Rules!BuildImageConfig(o)

LEMMA BuiltAlways == Rules!Spec => []Built
<1>1. Rules!Init => Built
  BY DEF Rules!Init, Built
<1>2. Built /\ [Rules!Next]_(Rules!vars) => Built'
  BY DEF Built, Rules!Next, Rules!vars
<1>3. QED
  BY <1>1, <1>2, PTL DEF Rules!Spec

\* What is accepted has been checked, and is not from a stage on the way.
LEMMA AcceptedIsValid ==
    ASSUME NEW o, Rules!BuildImageConfig(o).accepted
    PROVE  /\ Rules!Known(o)
           /\ Rules!Valid(Rules!BuildImageConfig(o).images)
           /\ Rules!BuildImageConfig(o).images =
                Rules!WithSingle(Rules!WithGlobal(Rules!WithSet(Rules!DefaultImages, o.versionSet),
                                                  o.globalVersion), o.single)
  BY DEF Rules!BuildImageConfig

\* No combination of overrides, of whatever versions and images, gets images
\* past the check whose versions do not fit (images.go:67-100).
THEOREM ImagesAgree == Rules!Spec => []AcceptedImagesAgree
<1>1. ASSUME NEW images, Rules!Valid(images)
      PROVE  Rules!Tagged(images, {"opNode", "opGeth"})
  <2>1. ASSUME NEW name \in DOMAIN Rules!VersionCompatibilityMatrix,
               NEW c \in {"opNode", "opGeth"}
        PROVE  Rules!VersionCompatibilityMatrix[name][c] # "none"
    BY DEF Rules!VersionCompatibilityMatrix, Rules!Components, Rules!OpStack
  <2>2. QED
    BY <1>1, <2>1 DEF Rules!Valid, Rules!Tagged
<1>2. Built => AcceptedImagesAgree
  BY <1>1, AcceptedIsValid DEF Built, AcceptedImagesAgree, Rules!AcceptedImagesAgree,
     Rules!Valid
<1>3. QED
  BY <1>2, BuiltAlways, PTL

\* Every accepted image is what the most specific override of its component
\* asks for (images.go:189-233).
THEOREM SpecificWins == Rules!Spec => []MostSpecificWins
<1>1. ASSUME NEW o, NEW c \in Rules!Components, Rules!BuildImageConfig(o).accepted
      PROVE  Rules!BuildImageConfig(o).images[c] = Rules!Wish(o, c)
  <2> DEFINE set == Rules!WithSet(Rules!DefaultImages, o.versionSet)
             global == Rules!WithGlobal(set, o.globalVersion)
  <2>1. Rules!BuildImageConfig(o).images[c] =
          IF o.single[c] # <<>> THEN o.single[c] ELSE global[c]
    <3>1. Rules!BuildImageConfig(o).images = Rules!WithSingle(global, o.single)
      BY <1>1, AcceptedIsValid
    <3> HIDE DEF global
    <3>2. QED
      BY <3>1 DEF Rules!WithSingle
  <2>2. global[c] = IF o.globalVersion # "none" /\ c \in Rules!OpStack
                    THEN Rules!Official(c, o.globalVersion) ELSE set[c]
    BY DEF Rules!WithGlobal
  <2>3. set[c] = IF o.versionSet = "none" THEN Rules!DefaultImages[c]
                 ELSE Rules!Official(c, Rules!VersionCompatibilityMatrix[o.versionSet][c])
    BY DEF Rules!WithSet
  <2> HIDE DEF set, global
  <2>4. QED
    BY <2>1, <2>2, <2>3 DEF Rules!Wish
<1>2. Built => MostSpecificWins
  BY <1>1 DEF Built, MostSpecificWins, Rules!MostSpecificWins
<1>3. QED
  BY <1>2, BuiltAlways, PTL
=============================================================================
